---------------------------- MODULE Spec2Model ----------------------------
(***************************************************************************)
(* Model of the resumable acquisition pipeline of youtube_scraper.py:      *)
(* the ledger (tables videos and scraping_progress), the files on disk,    *)
(* get_video_completion_status, discover_all_videos and                    *)
(* download_all_missing with download_subtitles and download_media.        *)
(*                                                                         *)
(* The specifications share the variables:                                 *)
(*   SpecEval  get_video_completion_status applied to any stored record    *)
(*             and any files on disk;                                      *)
(*   SpecDisc  runs of discover_all_videos, one enumerated video per step, *)
(*             in which nothing fails (SpecDiscFair: with the scheduling   *)
(*             of the loop; SpecDiscFaults: with failing reads and writes  *)
(*             of the ledger, a raising enumeration and user interrupts);  *)
(*   SpecAcq   runs of download_all_missing over a discovered ledger, one  *)
(*             fetch attempt per step, with files removed between runs.    *)
(*                                                                         *)
(* Assumptions: the subtitles directory lies under the working directory   *)
(* (Path.relative_to does not raise); unlink succeeds; the ledger columns  *)
(* that no modelled operation reads or that no property mentions (title,   *)
(* thumbnail, download_status, audio_path, file_size_mb, timestamps other  *)
(* than scraped_at) are left out.                                          *)
(***************************************************************************)
EXTENDS Integers, Sequences, FiniteSets, TLC

VARIABLES
    db,           \* table videos: item id -> record, or NoRec
    progress,     \* table scraping_progress: the row of the collection
    sub_files,    \* subtitles/<lang>/<id>_{manual,auto}.srt: size class
    media_files,  \* media_dir/<id>.*: set of files of each item
    ev,           \* SpecEval: the last result of the evaluator
    disc,         \* SpecDisc: locals of the running discover_all_videos
    hdisc,        \* SpecDisc: inputs and result of the last finished run
    acq,          \* SpecAcq: locals of the running download_all_missing
    hacq          \* SpecAcq: what the runs have done so far (history)

vars == <<db, progress, sub_files, media_files, ev, disc, hdisc, acq, hacq>>

---------------------------------------------------------------------------
(* Bounds *)

MaxItems == 3
MaxEnumLen == 4
MaxFaultEnumLen == 3

Items == 1..MaxItems
NoItem == 0

Langs == {"fa", "en"}
Kinds == {"manual", "auto"}

(* Program constants *)
max_retries == 3
batch_size == 50

---------------------------------------------------------------------------
(* Data *)

NoRec == [exists |-> FALSE]

\* sizes of a caption file: st_size = 0 or st_size > 0
SizeClass == {"absent", "empty", "full"}

\* a media file: temp = its suffix is .part, .ytdl or .temp;
\* big = st_size > 1024 * 1024
MediaFile == [temp : BOOLEAN, big : BOOLEAN]

LangStatus == {"unset", "completed", "failed", "missing", "not_available"}

NoSubFiles == [l \in Langs |-> [k \in Kinds |-> "absent"]]

\* a request: the arguments of get_video_completion_status and
\* download_all_missing
Request(subs, langs, media) ==
    [download_subtitles |-> subs, subtitle_languages |-> langs,
     download_media |-> media]

\* the record save_video inserts from its own defaults (lines 626-629),
\* without the fields discover_all_videos sets at lines 1381-1383
NewRecord_Pending(t) ==
    [exists |-> TRUE,
     metadata_completed |-> FALSE,
     subtitles_completed |-> [l \in Langs |-> "unset"],
     media_completed |-> FALSE,
     processing_status |-> "pending",
     last_processing_step |-> "None",
     subtitle_path |-> "None",
     auto_subtitle_path |-> "None",
     subtitle_type |-> "None",
     scraped_at |-> t]

\* the record save_video inserts for discover_all_videos
NewRecord(t) ==
    [exists |-> TRUE,
     metadata_completed |-> TRUE,
     subtitles_completed |-> [l \in Langs |-> "unset"],
     media_completed |-> FALSE,
     processing_status |-> "metadata_only",
     last_processing_step |-> "None",
     subtitle_path |-> "None",
     auto_subtitle_path |-> "None",
     subtitle_type |-> "None",
     scraped_at |-> t]

---------------------------------------------------------------------------
(* update_video_completion_status: upd holds the arguments that are not   *)
(* None; subtitles_completed is merged into the stored mapping.           *)

Has(upd, f) == f \in DOMAIN upd

UpdateVideoCompletionStatus(rec, upd) ==
    IF ~rec.exists THEN rec
    ELSE
    [rec EXCEPT
      !.metadata_completed =
          IF Has(upd, "metadata_completed") THEN upd.metadata_completed ELSE @,
      !.subtitles_completed =
          IF Has(upd, "subtitles_completed")
          THEN [l \in Langs |->
                  IF l \in DOMAIN upd.subtitles_completed
                  THEN upd.subtitles_completed[l] ELSE @[l]]
          ELSE @,
      !.media_completed =
          IF Has(upd, "media_completed") THEN upd.media_completed ELSE @,
      !.processing_status =
          IF Has(upd, "processing_status") THEN upd.processing_status ELSE @,
      !.last_processing_step =
          IF Has(upd, "last_step") THEN upd.last_step ELSE @]

OneLang(l, s) == [x \in {l} |-> s]

\* mark_step_completed for step 'subtitles_<lang>'
MarkSubtitleStep(rec, lang, success) ==
    UpdateVideoCompletionStatus(rec,
        [subtitles_completed |->
             OneLang(lang, IF success THEN "completed" ELSE "failed"),
         last_step |-> "subtitles_" \o lang])

\* mark_step_completed for step 'media' that drops the row of a video
\* whose media step failed
MarkMediaStep_Purge(rec, success) ==
    IF success
    THEN UpdateVideoCompletionStatus(rec,
             [media_completed |-> TRUE, last_step |-> "media"])
    ELSE NoRec

\* mark_step_completed for step 'media'
MarkMediaStep(rec, success) ==
    UpdateVideoCompletionStatus(rec,
        [media_completed |-> success, last_step |-> "media"])

---------------------------------------------------------------------------
(* get_video_completion_status *)

\* a non-empty manual or auto caption file of the language is on disk
FilesExist(sf, lang) ==
    sf[lang]["manual"] = "full" \/ sf[lang]["auto"] = "full"

\* HasSubstantialFile without the suffix test of line 803
HasSubstantialFile_AnySuffix(mf) == \E f \in mf : f.big

\* a file over 1 MB without a temporary suffix is on disk
HasSubstantialFile(mf) == \E f \in mf : ~f.temp /\ f.big

\* EvalLangs with the not_available test of line 768 left out
RECURSIVE EvalLangs_RetryTerminal(_, _, _, _, _, _)
EvalLangs_RetryTerminal(langs, i, stored, sf, missing, rec) ==
    IF i > Len(langs) THEN [missing |-> missing, rec |-> rec]
    ELSE LET lang == langs[i]
             lang_status == stored[lang]
         IN IF FilesExist(sf, lang)
            THEN EvalLangs_RetryTerminal(langs, i + 1, stored, sf, missing, rec)
            ELSE EvalLangs_RetryTerminal(langs, i + 1, stored, sf,
                     Append(missing, lang),
                     IF lang_status = "completed"
                     THEN UpdateVideoCompletionStatus(rec,
                              [subtitles_completed |-> OneLang(lang, "missing"),
                               processing_status |-> "partial"])
                     ELSE rec)

\* EvalLangs trusting the stored flag: a language stored as completed is
\* taken as satisfied without looking at the files
RECURSIVE EvalLangs_TrustFlag(_, _, _, _, _, _)
EvalLangs_TrustFlag(langs, i, stored, sf, missing, rec) ==
    IF i > Len(langs) THEN [missing |-> missing, rec |-> rec]
    ELSE LET lang == langs[i]
             lang_status == stored[lang]
         IN IF lang_status = "not_available" \/ lang_status = "completed"
            THEN EvalLangs_TrustFlag(langs, i + 1, stored, sf, missing, rec)
            ELSE IF FilesExist(sf, lang)
            THEN EvalLangs_TrustFlag(langs, i + 1, stored, sf, missing, rec)
            ELSE EvalLangs_TrustFlag(langs, i + 1, stored, sf,
                     Append(missing, lang), rec)

\* the loop over subtitle_languages from position i on: the languages
\* found missing so far and the record with the downgrades made so far
RECURSIVE EvalLangs(_, _, _, _, _, _)
EvalLangs(langs, i, stored, sf, missing, rec) ==
    IF i > Len(langs) THEN [missing |-> missing, rec |-> rec]
    ELSE LET lang == langs[i]
             lang_status == stored[lang]
         IN IF lang_status = "not_available"
            THEN EvalLangs(langs, i + 1, stored, sf, missing, rec)
            ELSE IF FilesExist(sf, lang)
            THEN EvalLangs(langs, i + 1, stored, sf, missing, rec)
            ELSE EvalLangs(langs, i + 1, stored, sf, Append(missing, lang),
                     IF lang_status = "completed"
                     THEN UpdateVideoCompletionStatus(rec,
                              [subtitles_completed |-> OneLang(lang, "missing"),
                               processing_status |-> "partial"])
                     ELSE rec)

GetVideoCompletionStatus(rec, sf, mf, req) ==
    IF ~rec.exists
    THEN [exists |-> FALSE,
          needs_metadata |-> TRUE,
          needs_subtitles |-> req.download_subtitles,
          missing_subtitle_languages |->
              IF req.download_subtitles THEN req.subtitle_languages ELSE <<>>,
          needs_media |-> req.download_media,
          is_fully_completed |-> FALSE,
          processing_status |-> "not_started",
          rec |-> rec]
    ELSE
    LET needs_metadata == ~rec.metadata_completed
        \* the row is read once, before the loop (lines 722-747)
        stored == rec.subtitles_completed
        subs == IF req.download_subtitles
                THEN EvalLangs(req.subtitle_languages, 1, stored, sf, <<>>, rec)
                ELSE [missing |-> <<>>, rec |-> rec]
        needs_media == req.download_media /\ ~HasSubstantialFile(mf)
        rec2 == IF needs_media /\ rec.media_completed
                THEN UpdateVideoCompletionStatus(subs.rec,
                         [media_completed |-> FALSE,
                          processing_status |-> "partial"])
                ELSE subs.rec
        needs_subtitles == Len(subs.missing) > 0
    IN [exists |-> TRUE,
        needs_metadata |-> needs_metadata,
        needs_subtitles |-> needs_subtitles,
        missing_subtitle_languages |-> subs.missing,
        needs_media |-> needs_media,
        is_fully_completed |->
            ~needs_metadata /\ ~needs_subtitles /\ ~needs_media,
        processing_status |-> rec.processing_status,
        rec |-> rec2]

---------------------------------------------------------------------------
(* SpecEval: the evaluator applied to any stored record and any files.    *)

EvalItem == 1
MaxCalls == 2

\* the requests the evaluator is called with
EvalRequests ==
    { Request(TRUE, <<"fa">>, FALSE),
      Request(TRUE, <<"fa", "en">>, TRUE),
      Request(FALSE, <<"fa", "en">>, TRUE) }

\* the records a ledger row can hold
StoredRecords ==
    { [NewRecord(1) EXCEPT !.metadata_completed = m,
                           !.subtitles_completed = s,
                           !.media_completed = mc,
                           !.processing_status = ps] :
        m \in BOOLEAN, s \in [Langs -> LangStatus], mc \in BOOLEAN,
        ps \in {"metadata_only", "partial", "completed"} }

\* a row written before the completion columns existed, after
\* _migrate_database has added them with their defaults (lines 151-155)
MigratedRecord ==
    [NewRecord(1) EXCEPT !.metadata_completed = FALSE,
                         !.processing_status = "pending"]

\* the caption files of one item: any size for fa, present or not for en
EvalSubFiles ==
    { [l \in Langs |-> IF l = "fa" THEN a ELSE b] :
        a \in [Kinds -> SizeClass], b \in [Kinds -> {"absent", "full"}] }

EvalMediaFiles == { S \in SUBSET MediaFile : Cardinality(S) <= 2 }

NoEv == [calls |-> 0]
NoDisc == [pc |-> "idle"]
NoHDisc == [runs |-> 0]
NoAcq == [pc |-> "idle"]
NoHAcq == [runs |-> 0]

InitEval ==
    /\ \E r \in StoredRecords \cup {NoRec, MigratedRecord} :
          db = [v \in Items |-> IF v = EvalItem THEN r ELSE NoRec]
    /\ progress = [exists |-> FALSE]
    /\ \E sf \in EvalSubFiles :
          sub_files = [v \in Items |-> IF v = EvalItem THEN sf ELSE NoSubFiles]
    /\ \E mf \in EvalMediaFiles :
          media_files = [v \in Items |-> IF v = EvalItem THEN mf ELSE {}]
    /\ ev = NoEv
    /\ disc = NoDisc /\ hdisc = NoHDisc
    /\ acq = NoAcq /\ hacq = NoHAcq

LangsOf(req) ==
    IF req.download_subtitles
    THEN {req.subtitle_languages[i] : i \in 1..Len(req.subtitle_languages)}
    ELSE {}

\* one call of get_video_completion_status(EvalItem, req)
Evaluate(req) ==
    LET rec == db[EvalItem]
        res == GetVideoCompletionStatus(rec, sub_files[EvalItem],
                                        media_files[EvalItem], req)
    IN /\ ev.calls < MaxCalls
       /\ db' = [db EXCEPT ![EvalItem] = res.rec]
       /\ ev' = [calls |-> ev.calls + 1,
                 req |-> req,
                 res |-> [res EXCEPT !.rec = NoRec],
                 \* the flags that claimed completion without a file
                 stale_langs |->
                     IF rec.exists
                     THEN {l \in LangsOf(req) :
                              /\ rec.subtitles_completed[l] = "completed"
                              /\ ~FilesExist(sub_files[EvalItem], l)}
                     ELSE {},
                 stale_media |->
                     /\ rec.exists
                     /\ req.download_media
                     /\ rec.media_completed
                     /\ ~HasSubstantialFile(media_files[EvalItem]),
                 \* the languages stored as not_available
                 terminal_langs |->
                     IF rec.exists
                     THEN {l \in LangsOf(req) :
                              rec.subtitles_completed[l] = "not_available"}
                     ELSE {},
                 changed |-> res.rec # rec,
                 \* the call before this one had the same request, and
                 \* returned the same result
                 repeat |-> IF ev.calls > 0 THEN ev.req = req ELSE FALSE,
                 same_result |->
                     IF ev.calls > 0
                     THEN ev.res = [res EXCEPT !.rec = NoRec]
                     ELSE FALSE]
       /\ UNCHANGED <<progress, sub_files, media_files, disc, hdisc, acq, hacq>>

NextEval == \E req \in EvalRequests : Evaluate(req)

SpecEval == InitEval /\ [][NextEval]_vars

---------------------------------------------------------------------------
(* Discovery: discover_all_videos, one enumerated video per step.         *)

\* what extract_video_data reads from the descriptor of an item: whether
\* the title matches the pattern of the run, and the duration in minutes
\* that _parse_duration_to_minutes returns (NoDuration: None)
NoDuration == 0 - 1
TitleMatches(v) == v % 2 = 1
DurationMinutes(v) == IF v % 3 = 0 THEN NoDuration ELSE 30 * (v % 3)

NoBound == 0 - 1

\* the filter arguments of a run: title_pattern given or not,
\* min_duration_minutes, max_duration_minutes, duration_filter_strict
Filters ==
    { [title_pattern |-> FALSE, min |-> NoBound, max |-> NoBound, strict |-> FALSE],
      [title_pattern |-> TRUE, min |-> NoBound, max |-> NoBound, strict |-> FALSE],
      [title_pattern |-> FALSE, min |-> 45, max |-> NoBound, strict |-> TRUE],
      [title_pattern |-> FALSE, min |-> NoBound, max |-> 45, strict |-> FALSE] }

\* _should_process_video
ShouldProcessVideo(v, f) ==
    IF f.title_pattern /\ ~TitleMatches(v) THEN FALSE
    ELSE IF f.min # NoBound \/ f.max # NoBound
    THEN LET duration_minutes == DurationMinutes(v)
         IN IF duration_minutes = NoDuration
            THEN ~f.strict
            ELSE IF f.min # NoBound /\ duration_minutes < f.min THEN FALSE
            ELSE IF f.max # NoBound /\ duration_minutes > f.max THEN FALSE
            ELSE TRUE
    ELSE TRUE

\* the sequences the enumeration collaborator can yield
RECURSIVE SeqsUpTo(_)
SeqsUpTo(n) ==
    IF n = 0 THEN {<<>>}
    ELSE LET shorter == SeqsUpTo(n - 1)
         IN shorter \cup {Append(q, v) : q \in shorter, v \in Items}

Enumerations == SeqsUpTo(MaxEnumLen)

FaultEnumerations == SeqsUpTo(MaxFaultEnumLen)

\* is_video_exists with the lookup answering "no row" for every id
IsVideoExists_Never(v) == FALSE

\* is_video_exists
IsVideoExists(v) == db[v].exists

\* update_progress
UpdateProgress(last_video_id, total_scraped) ==
    [exists |-> TRUE, last_video_id |-> last_video_id,
     total_scraped |-> total_scraped]

\* get_progress; read_ok = FALSE: the query raises and the defaults are
\* returned (lines 684-686)
GetProgress(read_ok) ==
    IF read_ok /\ progress.exists
    THEN [last_video_id |-> progress.last_video_id,
          total_scraped |-> progress.total_scraped]
    ELSE [last_video_id |-> NoItem, total_scraped |-> 0]

\* scraped_at of a new row: CURRENT_TIMESTAMP, as a logical time
Now == Cardinality({v \in Items : db[v].exists}) + 1

Last(q) == q[Len(q)]

\* a run that takes every video as coming after the watermark
FoundAtStart_Always(last_video_id) == TRUE

\* `found_last_video = not last_video_id` (line 1346)
FoundAtStart(last_video_id) == last_video_id = NoItem

\* lines 1333-1347
StartDiscovery(enum, f, read_ok) ==
    LET p == GetProgress(read_ok)
    IN /\ disc.pc = "idle"
       /\ disc' = [pc |-> "loop",
                   enum |-> enum, pos |-> 0, filters |-> f,
                   start_count |-> p.total_scraped,
                   last_video_id |-> p.last_video_id,
                   processed_count |-> 0,
                   skipped_count |-> 0,
                   saved_count |-> p.total_scraped,
                   batch_videos |-> <<>>,
                   found_last_video |-> FoundAtStart(p.last_video_id),
                   \* history: the positions of the enumeration saved
                   saved_at |-> {},
                   \* history: the state the run started from
                   clean |-> read_ok,
                   repeat |-> /\ hdisc.runs > 0
                              /\ hdisc.ended = "returned"
                              /\ hdisc.clean
                              /\ hdisc.enum = enum
                              /\ hdisc.filters = f,
                   ids_before |-> {v \in Items : db[v].exists},
                   progress_before |-> progress]
       /\ hdisc' = [runs |-> 1, ended |-> "running"]
       /\ UNCHANGED <<db, progress, sub_files, media_files, ev, acq, hacq>>

\* `for video in video_generator`: the enumeration moves to its next video
Advance(d) == [d EXCEPT !.pos = @ + 1]

\* the body of the loop for the next enumerated video (lines 1351-1395);
\* save_ok = FALSE: save_video catches an error and returns False
DiscoverVideo(save_ok) ==
    /\ disc.pc = "loop"
    /\ disc.pos < Len(disc.enum)
    /\ LET video_id == disc.enum[disc.pos + 1]
           d == Advance(disc)
       IN IF ~disc.found_last_video
          THEN /\ save_ok
               /\ disc' = [d EXCEPT !.found_last_video =
                                        (video_id = disc.last_video_id)]
               /\ UNCHANGED <<db, progress>>
          ELSE IF IsVideoExists(video_id)
                  \/ ~ShouldProcessVideo(video_id, disc.filters)
          THEN /\ save_ok
               /\ disc' = [d EXCEPT !.skipped_count = @ + 1]
               /\ UNCHANGED <<db, progress>>
          ELSE LET processed_count ==
                       IF save_ok THEN disc.processed_count + 1
                       ELSE disc.processed_count
                   saved_count ==
                       IF save_ok THEN disc.saved_count + 1
                       ELSE disc.saved_count
               IN /\ db' = IF save_ok
                           THEN [db EXCEPT ![video_id] = NewRecord(Now)]
                           ELSE db
                  /\ disc' = [d EXCEPT
                                !.processed_count = processed_count,
                                !.saved_count = saved_count,
                                !.batch_videos =
                                    IF save_ok THEN Append(@, video_id) ELSE @,
                                !.saved_at =
                                    IF save_ok THEN @ \cup {disc.pos + 1} ELSE @,
                                !.clean = @ /\ save_ok]
                  /\ progress' =
                        IF processed_count % batch_size = 0
                        THEN UpdateProgress(video_id, saved_count)
                        ELSE progress
    /\ UNCHANGED <<hdisc, sub_files, media_files, ev, acq, hacq>>

\* what the run leaves behind for the properties: of a run that returned
\* without any error, its inputs, the state it started from and what it
\* saved; of any other run, how it ended, what it saved and whether every
\* read and write of the ledger succeeded in it (clean)
Ended(how, d) ==
    IF how = "returned" /\ d.clean
    THEN [runs |-> 1, ended |-> how, clean |-> TRUE,
          repeat |-> d.repeat,
          enum |-> d.enum, filters |-> d.filters,
          last_video_id |-> d.last_video_id,
          found_last_video |-> d.found_last_video,
          batch_videos |-> d.batch_videos,
          saved_at |-> d.saved_at,
          saved_count |-> d.saved_count,
          net_discovered |-> d.saved_count - d.start_count,
          ids_before |-> d.ids_before,
          progress_before |-> d.progress_before]
    ELSE [runs |-> 1, ended |-> how, clean |-> d.clean,
          last_video_id |-> d.last_video_id,
          found_last_video |-> d.found_last_video,
          batch_videos |-> d.batch_videos,
          saved_count |-> d.saved_count,
          net_discovered |-> d.saved_count - d.start_count,
          progress_before |-> d.progress_before]

\* a return without the final update
FinalUpdate_Skip(d) == progress

\* the final update checkpointing the first video of the batch
FinalUpdate_First(d) ==
    IF Len(d.batch_videos) > 0
    THEN UpdateProgress(d.batch_videos[1], d.saved_count)
    ELSE progress

\* the final update and the return (lines 1404-1411)
FinalUpdate(d) ==
    IF Len(d.batch_videos) > 0
    THEN UpdateProgress(Last(d.batch_videos), d.saved_count)
    ELSE progress

\* the enumeration is exhausted: the loop ends
FinishDiscovery ==
    /\ disc.pc = "loop"
    /\ disc.pos = Len(disc.enum)
    /\ progress' = FinalUpdate(disc)
    /\ hdisc' = Ended("returned", disc)
    /\ disc' = NoDisc
    /\ UNCHANGED <<db, sub_files, media_files, ev, acq, hacq>>

\* the enumeration raises before yielding its next video: the handler of
\* lines 1397-1402 and then the final update
DiscoveryError ==
    /\ disc.pc = "loop"
    /\ disc.pos < Len(disc.enum)
    /\ progress' = FinalUpdate(disc)
    /\ hdisc' = Ended("error", disc)
    /\ disc' = NoDisc
    /\ UNCHANGED <<db, sub_files, media_files, ev, acq, hacq>>

\* KeyboardInterrupt in the loop: no handler in discover_all_videos, main
\* prints and exits (lines 1826-1827)
DiscoveryInterrupt ==
    /\ disc.pc = "loop"
    /\ disc.pos < Len(disc.enum)
    /\ hdisc' = Ended("interrupted", disc)
    /\ disc' = NoDisc
    /\ UNCHANGED <<db, progress, sub_files, media_files, ev, acq, hacq>>

InitDisc ==
    /\ db = [v \in Items |-> NoRec]
    /\ progress = [exists |-> FALSE]
    /\ sub_files = [v \in Items |-> NoSubFiles]
    /\ media_files = [v \in Items |-> {}]
    /\ ev = NoEv
    /\ disc = NoDisc /\ hdisc = NoHDisc
    /\ acq = NoAcq /\ hacq = NoHAcq

\* runs in which nothing fails: every read and write of the ledger
\* succeeds and the enumeration ends normally
NextDisc ==
    \/ \E enum \in Enumerations, f \in Filters : StartDiscovery(enum, f, TRUE)
    \/ DiscoverVideo(TRUE)
    \/ FinishDiscovery

SpecDisc == InitDisc /\ [][NextDisc]_vars

\* the scheduling of one run: the loop takes its next step, and ends
SpecDiscFair ==
    /\ SpecDisc
    /\ WF_vars(DiscoverVideo(TRUE))
    /\ WF_vars(FinishDiscovery)

\* runs with failures: get_progress or save_video fails, the enumeration
\* raises, the user interrupts
NextDiscFaults ==
    \/ \E enum \in FaultEnumerations, f \in Filters, read_ok \in BOOLEAN :
           StartDiscovery(enum, f, read_ok)
    \/ \E save_ok \in BOOLEAN : DiscoverVideo(save_ok)
    \/ FinishDiscovery
    \/ DiscoveryError
    \/ DiscoveryInterrupt

SpecDiscFaults == InitDisc /\ [][NextDiscFaults]_vars

---------------------------------------------------------------------------
(* SpecAcq: download_all_missing over a ledger that discover_all_videos   *)
(* has filled, one fetch attempt per step.  What the remote service       *)
(* answers to each command is an input of the step.                       *)

MaxQueue == 2
MaxRuns == 2

AcqItems == 1..MaxQueue

\* the requests download_all_missing is called with
AcqRequests ==
    { Request(TRUE, <<"fa">>, TRUE),
      Request(TRUE, <<"fa", "en">>, FALSE) }

\* what one yt-dlp caption command does: ok = return code 0 and a
\* non-empty file; empty = a file of size 0 (unlinked at once); none = no
\* file, whatever stderr says; timeout = subprocess.TimeoutExpired
SubOutcomes == {"ok", "empty", "none", "timeout"}

\* the same with the case of no file told apart by stderr: blocked = an
\* error _is_auth_or_bot_error recognises (lines 276-280 log a warning
\* for the manual command; the auto command does not look at stderr)
CaptionOutcomes == SubOutcomes \cup {"blocked"}

\* what the first media command does: ok_big = return code 0 and a file
\* over 1 MB; ok_small = return code 0 and a smaller file; ok_nofile =
\* return code 0 and no file; blocked = an error _is_auth_or_bot_error
\* recognises; unavailable = an error naming the video unavailable;
\* failed = any other error; timeout = TimeoutExpired, timeout_part = the
\* same with a .part file left behind
MediaOutcomes ==
    {"ok_big", "ok_small", "ok_nofile", "blocked", "unavailable", "failed",
     "timeout", "timeout_part"}

\* what one alternative method does: ok = return code 0 and a file over
\* 1 MB; ok_small = return code 0 and a smaller file; fail = anything
\* else, TimeoutExpired included (lines 443-451 go on to the next method
\* in each case)
AltOutcomes == {"ok", "ok_small", "fail"}

\* the three entries of `methods`
Methods == 1..3

\* the ladder is not entered
NoAlts == [m \in Methods |-> "fail"]

BigFile == [temp |-> FALSE, big |-> TRUE]
PartFile == [temp |-> TRUE, big |-> FALSE]
BigPartFile == [temp |-> TRUE, big |-> TRUE]
SmallFile == [temp |-> FALSE, big |-> FALSE]

InitAcq ==
    /\ db = [v \in Items |-> IF v \in AcqItems THEN NewRecord(v) ELSE NoRec]
    /\ progress = [exists |-> TRUE, last_video_id |-> MaxQueue,
                   total_scraped |-> MaxQueue]
    /\ sub_files = [v \in Items |-> NoSubFiles]
    /\ media_files = [v \in Items |-> {}]
    /\ ev = NoEv
    /\ disc = NoDisc /\ hdisc = NoHDisc
    /\ acq = NoAcq
    /\ hacq = [runs |-> 0, last_req |-> Request(FALSE, <<>>, FALSE),
               na |-> {}, rerequested |-> FALSE,
               stale |-> {}, missed |-> {}]

\* the rows of S in the order of scraped_at (rows of equal time by id)
RECURSIVE OrderByScrapedAt(_, _)
OrderByScrapedAt(S, ledger) ==
    IF S = {} THEN <<>>
    ELSE LET first == CHOOSE v \in S : \A w \in S :
                          \/ ledger[v].scraped_at < ledger[w].scraped_at
                          \/ /\ ledger[v].scraped_at = ledger[w].scraped_at
                             /\ v <= w
         IN <<first>> \o OrderByScrapedAt(S \ {first}, ledger)

\* the same SELECT without its WHERE clause
VideosToProcess_All(ledger) ==
    OrderByScrapedAt({v \in Items : ledger[v].exists}, ledger)

\* `SELECT ... WHERE processing_status != 'completed' ORDER BY scraped_at`
VideosToProcess(ledger) ==
    OrderByScrapedAt({v \in Items : /\ ledger[v].exists
                                    /\ ledger[v].processing_status # "completed"},
                     ledger)

\* the locals of download_all_missing that live across the videos
RunLocals(a) ==
    [pc |-> a.pc, req |-> a.req,
     videos_to_process |-> a.videos_to_process, i |-> a.i,
     success_count |-> a.success_count, failed_count |-> a.failed_count,
     blocked |-> a.blocked, refetch |-> a.refetch, later |-> a.later,
     last_final |-> a.last_final, visited |-> a.visited,
     finals |-> a.finals,
     tracked |-> a.tracked]

\* lines 1420-1434
StartAcquire(req) ==
    /\ acq.pc = "idle"
    /\ hacq.runs < MaxRuns
    /\ acq' = [pc |-> "item", req |-> req,
               videos_to_process |-> VideosToProcess(db), i |-> 1,
               success_count |-> 0, failed_count |-> 0,
               \* history of this run
               blocked |-> NoItem, refetch |-> FALSE, later |-> FALSE,
               last_final |-> NoItem, visited |-> {}, finals |-> {},
               tracked |-> IF hacq.runs > 0 /\ hacq.last_req = req
                           THEN hacq.stale ELSE {}]
    /\ UNCHANGED <<db, progress, sub_files, media_files, ev, disc, hdisc, hacq>>

\* the video the loop is at
Cur == acq.videos_to_process[acq.i]

\* where the body of the loop goes after the subtitles
AfterSubs(needs_media) == IF needs_media THEN "probe" ELSE "final"

\* the body of the loop without the `continue` of line 1446
BeginItem_NoSkip ==
    /\ acq.pc = "item"
    /\ acq.i <= Len(acq.videos_to_process)
    /\ LET v == Cur
           res == GetVideoCompletionStatus(db[v], sub_files[v],
                                           media_files[v], acq.req)
           base == [acq EXCEPT !.last_final = NoItem,
                               !.visited = @ \cup {v},
                               !.later = @ \/ acq.blocked # NoItem]
       IN /\ db' = [db EXCEPT ![v] = res.rec]
          /\ IF FALSE
             THEN acq' = [RunLocals(base) EXCEPT !.i = @ + 1]
             ELSE acq' = [pc |-> IF res.needs_subtitles THEN "subs"
                                 ELSE AfterSubs(res.needs_media),
                          success |-> TRUE,
                          needs_media |-> res.needs_media,
                          languages_to_download |->
                              res.missing_subtitle_languages,
                          li |-> 1, attempt |-> 0,
                          lang_manual_success |-> FALSE,
                          lang_auto_success |-> FALSE,
                          manual_path |-> "None", auto_path |-> "None",
                          subtitle_type |-> "none",
                          language_results |-> [l \in {} |-> "none"],
                          download_status |-> "failed",
                          undersized |-> FALSE,
                          \* history of the calls made for this video:
                          \* a fetch of the language met a blocking
                          \* signal; download_subtitles returned
                          \* not_available for such a language; the last
                          \* attempt raised TimeoutExpired; the seconds
                          \* slept after the last attempt; the number of
                          \* times download_media called the alternative
                          \* methods; the answer of the probe
                          lang_blocked |-> FALSE,
                          caption_blocked |-> FALSE,
                          timed_out |-> FALSE, pause |-> 0,
                          ladders |-> 0, probe |-> "none"]
                         @@ RunLocals(base)
          /\ hacq' = [hacq EXCEPT !.rerequested =
                        @ \/ \E k \in 1..Len(res.missing_subtitle_languages) :
                                <<v, res.missing_subtitle_languages[k]>>
                                    \in hacq.na]
    /\ UNCHANGED <<progress, sub_files, media_files, ev, disc, hdisc>>

\* lines 1436-1448: the evaluator is asked what the video still needs
BeginItem ==
    /\ acq.pc = "item"
    /\ acq.i <= Len(acq.videos_to_process)
    /\ LET v == Cur
           res == GetVideoCompletionStatus(db[v], sub_files[v],
                                           media_files[v], acq.req)
           base == [acq EXCEPT !.last_final = NoItem,
                               !.visited = @ \cup {v},
                               !.later = @ \/ acq.blocked # NoItem]
       IN /\ db' = [db EXCEPT ![v] = res.rec]
          /\ IF res.is_fully_completed
             THEN acq' = [RunLocals(base) EXCEPT !.i = @ + 1]
             ELSE acq' = [pc |-> IF res.needs_subtitles THEN "subs"
                                 ELSE AfterSubs(res.needs_media),
                          success |-> TRUE,
                          needs_media |-> res.needs_media,
                          languages_to_download |->
                              res.missing_subtitle_languages,
                          li |-> 1, attempt |-> 0,
                          lang_manual_success |-> FALSE,
                          lang_auto_success |-> FALSE,
                          manual_path |-> "None", auto_path |-> "None",
                          subtitle_type |-> "none",
                          language_results |-> [l \in {} |-> "none"],
                          download_status |-> "failed",
                          undersized |-> FALSE,
                          \* history of the calls made for this video:
                          \* a fetch of the language met a blocking
                          \* signal; download_subtitles returned
                          \* not_available for such a language; the last
                          \* attempt raised TimeoutExpired; the seconds
                          \* slept after the last attempt; the number of
                          \* times download_media called the alternative
                          \* methods; the answer of the probe
                          lang_blocked |-> FALSE,
                          caption_blocked |-> FALSE,
                          timed_out |-> FALSE, pause |-> 0,
                          ladders |-> 0, probe |-> "none"]
                         @@ RunLocals(base)
          /\ hacq' = [hacq EXCEPT !.rerequested =
                        @ \/ \E k \in 1..Len(res.missing_subtitle_languages) :
                                <<v, res.missing_subtitle_languages[k]>>
                                    \in hacq.na]
    /\ UNCHANGED <<progress, sub_files, media_files, ev, disc, hdisc>>

\* one pass of the `for attempt in range(max_retries)` body of
\* download_subtitles for one language (lines 252-319): the files of the
\* language and the flags after it
SubsPass(sf, lms, las, mo, ao) ==
    LET try_manual == sf["manual"] = "absent"
        manual_ok == try_manual /\ mo = "ok"
        manual_exc == try_manual /\ mo = "timeout"
        sf1 == IF manual_ok THEN [sf EXCEPT !["manual"] = "full"] ELSE sf
        try_auto == ~manual_exc /\ sf1["auto"] = "absent"
        auto_ok == try_auto /\ ao = "ok"
        auto_exc == try_auto /\ ao = "timeout"
    IN [sf |-> IF auto_ok THEN [sf1 EXCEPT !["auto"] = "full"] ELSE sf1,
        manual_ok |-> manual_ok,
        auto_ok |-> auto_ok,
        lang_manual_success |-> lms \/ manual_ok,
        lang_auto_success |-> las \/ auto_ok,
        exception |-> manual_exc \/ auto_exc,
        blocked |-> \/ try_manual /\ mo = "blocked"
                    \/ try_auto /\ ao = "blocked"]

\* lines 1467-1479 of download_all_missing: the UPDATE of the caption
\* columns, then mark_step_completed for each language asked for
RECURSIVE MarkLanguages(_, _, _, _)
MarkLanguages(rec, langs, k, language_results) ==
    IF k > Len(langs) THEN rec
    ELSE MarkLanguages(
             MarkSubtitleStep(rec, langs[k],
                              language_results[langs[k]] = "completed"),
             langs, k + 1, language_results)

StoreSubtitles(rec, a, language_results) ==
    MarkLanguages([rec EXCEPT !.subtitle_path = a.manual_path,
                              !.auto_subtitle_path = a.auto_path,
                              !.subtitle_type = a.subtitle_type],
                  a.languages_to_download, 1, language_results)

\* one attempt of download_subtitles for the language it is at; with the
\* last attempt of the last language the call returns and lines 1467-1479
\* store the result
SubsAttempt(mo, ao) ==
    /\ acq.pc = "subs"
    /\ LET v == Cur
           lang == acq.languages_to_download[acq.li]
           p == SubsPass(sub_files[v][lang], acq.lang_manual_success,
                         acq.lang_auto_success, mo, ao)
           manual_path == IF p.manual_ok /\ acq.manual_path = "None"
                          THEN lang ELSE acq.manual_path
           type1 == IF p.manual_ok /\ acq.manual_path = "None"
                    THEN "manual" ELSE acq.subtitle_type
           auto_path == IF p.auto_ok /\ acq.auto_path = "None"
                        THEN lang ELSE acq.auto_path
           type2 == IF p.auto_ok /\ acq.auto_path = "None"
                    THEN (IF type1 = "manual" THEN "both"
                          ELSE IF type1 = "none" THEN "auto" ELSE type1)
                    ELSE type1
           got == p.lang_manual_success \/ p.lang_auto_success
           lang_done == (~p.exception /\ got) \/ acq.attempt + 1 = max_retries
           result == IF got THEN "completed" ELSE "not_available"
           language_results == [l \in DOMAIN acq.language_results \cup {lang} |->
                                   IF l = lang THEN result
                                   ELSE acq.language_results[l]]
           blocked == acq.lang_blocked \/ p.blocked
           a1 == [acq EXCEPT !.manual_path = manual_path,
                             !.auto_path = auto_path,
                             !.subtitle_type = type2,
                             !.timed_out = p.exception,
                             \* lines 311-318: the sleep is in the handlers
                             !.pause = IF /\ p.exception
                                          /\ acq.attempt < max_retries - 1
                                       THEN 2 ^ acq.attempt ELSE 0,
                             !.lang_blocked = blocked /\ ~lang_done,
                             !.caption_blocked =
                                 @ \/ /\ lang_done /\ blocked
                                      /\ result = "not_available"]
       IN /\ sub_files' = [sub_files EXCEPT ![v][lang] = p.sf]
          /\ IF ~lang_done
             THEN /\ acq' = [a1 EXCEPT
                               !.attempt = @ + 1,
                               !.lang_manual_success = p.lang_manual_success,
                               !.lang_auto_success = p.lang_auto_success]
                  /\ UNCHANGED <<db, hacq>>
             ELSE /\ IF acq.li < Len(acq.languages_to_download)
                     THEN /\ acq' = [a1 EXCEPT
                                       !.li = @ + 1, !.attempt = 0,
                                       !.lang_manual_success = FALSE,
                                       !.lang_auto_success = FALSE,
                                       !.language_results = language_results]
                          /\ UNCHANGED <<db, hacq>>
                     ELSE /\ db' = [db EXCEPT ![v] =
                                      StoreSubtitles(db[v], a1, language_results)]
                          \* history: the languages that yielded no caption
                          /\ hacq' = [hacq EXCEPT !.na = @ \cup
                                        {<<v, l>> : l \in
                                           {x \in DOMAIN language_results :
                                              language_results[x] =
                                                  "not_available"}}]
                          \* the locals of the call are dead from here on
                          /\ acq' = [acq EXCEPT
                                       !.pc = AfterSubs(acq.needs_media),
                                       !.timed_out = a1.timed_out,
                                       !.pause = a1.pause,
                                       !.caption_blocked = a1.caption_blocked,
                                       !.li = 1, !.attempt = 0,
                                       !.lang_manual_success = FALSE,
                                       !.lang_auto_success = FALSE,
                                       !.language_results =
                                           [l \in {} |-> "none"]]
    /\ UNCHANGED <<progress, media_files, ev, disc, hdisc>>

\* what the command of _quick_video_check does: exists = return code 0;
\* deleted = an error whose text holds 'unavailable', 'removed', 'deleted',
\* 'private' or 'not found'; error = any other error or exception;
\* timeout = TimeoutExpired
ProbeOutcomes == {"exists", "deleted", "error", "timeout"}

\* _quick_video_check (lines 346-376)
QuickVideoCheck_Strict(out) == out = "exists"

QuickVideoCheck(out) == out # "deleted"

\* history: what the command of the probe answered, a definitive deletion
\* or anything else
ProbeAnswer(out) == IF out = "deleted" THEN "deleted" ELSE "other"

\* lines 1486-1496 of download_all_missing
Probe(out) ==
    /\ acq.pc = "probe"
    /\ LET v == Cur
       IN IF QuickVideoCheck(out)
          THEN /\ acq' = [acq EXCEPT !.pc = "media", !.attempt = 0,
                                     !.download_status = "failed",
                                     !.timed_out = FALSE, !.pause = 0,
                                     !.probe = ProbeAnswer(out)]
               /\ UNCHANGED db
          ELSE /\ db' = [db EXCEPT ![v] = MarkMediaStep(db[v], FALSE)]
               /\ acq' = [acq EXCEPT !.pc = "final", !.success = FALSE,
                                     !.timed_out = FALSE, !.pause = 0,
                                     !.probe = ProbeAnswer(out)]
    /\ UNCHANGED <<progress, sub_files, media_files, ev, disc, hdisc, hacq>>

\* a method before m has timed out and left a .part file over 1 MB
PartLeft(alts, m) == \E n \in 1..(m - 1) : alts[n] = "timeout_part"

\* lines 434-441: method m returns 'completed' when its return code is 0
\* and the largest file that `glob(f"{video_id}.*")` finds is over 1 MB,
\* be it the file it wrote or a .part file left on disk
MethodCompletes(alts, m) ==
    \/ alts[m] = "ok"
    \/ alts[m] = "ok_small" /\ PartLeft(alts, m)

\* _try_alternative_download_methods (lines 378-453): the methods are
\* tried in order until one returns 'completed'
RECURSIVE FirstOkFrom(_, _)
FirstOkFrom(alts, m) ==
    IF m \notin Methods THEN 0
    ELSE IF MethodCompletes(alts, m) THEN m
    ELSE FirstOkFrom(alts, m + 1)

\* the method that returns 'completed', 0 when none does
FirstOk(alts) == FirstOkFrom(alts, 1)

TryAlternativeDownloadMethods(alts) ==
    IF FirstOk(alts) # 0 THEN "completed" ELSE "auth_failed"

\* the files the ladder leaves: every method writes `{video_id}.%(ext)s`,
\* so the file of a later method replaces that of an earlier one; a file
\* of up to 1 MB is tested at line 439 and left where it is
AlternativeFiles(alts) ==
    LET first == FirstOk(alts)
        last == IF first # 0 THEN first ELSE 3
    IN (IF alts[last] = "ok" THEN {BigFile}
        ELSE IF \E m \in 1..last : alts[m] = "ok_small" THEN {SmallFile}
        ELSE {})
       \cup (IF \E m \in 1..last : alts[m] = "timeout_part"
             THEN {BigPartFile} ELSE {})

\* the largest_file a successful call returns (line 437)
AlternativeFile(alts) ==
    IF alts[FirstOk(alts)] = "ok" THEN BigFile ELSE BigPartFile

\* the files the first part of an attempt leaves (lines 493-514): files
\* with a temporary suffix and files up to 1 MB are unlinked
CleanUp(mf) == {f \in mf : ~f.temp /\ f.big}

\* the same with a timeout that ends the loop as an unavailable video does
MediaPass_TimeoutBreaks(mf, status, out, alts) ==
    LET kept == CleanUp(mf)
    IN IF kept # {}
       THEN [mf |-> kept, status |-> "completed", leave |-> TRUE,
             fetched |-> FALSE, exhausted |-> FALSE, small |-> FALSE]
       ELSE IF out = "ok_big"
       THEN [mf |-> {BigFile}, status |-> "completed", leave |-> TRUE,
             fetched |-> TRUE, exhausted |-> FALSE, small |-> FALSE]
       \* lines 540-543: the file is unlinked
       ELSE IF out = "ok_small"
       THEN [mf |-> {}, status |-> "corrupted", leave |-> FALSE,
             fetched |-> TRUE, exhausted |-> FALSE, small |-> TRUE]
       ELSE IF out = "ok_nofile"
       THEN [mf |-> {}, status |-> "missing_file", leave |-> FALSE,
             fetched |-> TRUE, exhausted |-> FALSE, small |-> FALSE]
       ELSE IF out = "blocked"
       THEN IF TryAlternativeDownloadMethods(alts) = "completed"
            THEN [mf |-> AlternativeFiles(alts), status |-> "completed",
                  leave |-> TRUE,
                  fetched |-> TRUE, exhausted |-> FALSE, small |-> FALSE]
            \* the raise of line 571 is inside the try of line 471: the
            \* handler of line 582 catches it
            ELSE [mf |-> AlternativeFiles(alts), status |-> "error",
                  leave |-> FALSE,
                  fetched |-> TRUE, exhausted |-> TRUE,
                  small |-> SmallFile \in AlternativeFiles(alts)]
       ELSE IF out = "unavailable"
       THEN [mf |-> {}, status |-> "unavailable", leave |-> TRUE,
             fetched |-> TRUE, exhausted |-> FALSE, small |-> FALSE]
       ELSE IF out = "failed"
       THEN [mf |-> {}, status |-> status, leave |-> FALSE,
             fetched |-> TRUE, exhausted |-> FALSE, small |-> FALSE]
       ELSE IF out = "timeout"
       THEN [mf |-> {}, status |-> "timeout", leave |-> TRUE,
             fetched |-> TRUE, exhausted |-> FALSE, small |-> FALSE]
       ELSE [mf |-> {PartFile}, status |-> "timeout", leave |-> TRUE,
             fetched |-> TRUE, exhausted |-> FALSE, small |-> FALSE]

\* one pass of the `for attempt in range(max_retries)` body of
\* download_media (lines 470-587): the files, the status and whether the
\* loop is left (by `break` or by `return`)
MediaPass(mf, status, out, alts) ==
    LET kept == CleanUp(mf)
    IN IF kept # {}
       THEN [mf |-> kept, status |-> "completed", leave |-> TRUE,
             fetched |-> FALSE, exhausted |-> FALSE, small |-> FALSE]
       ELSE IF out = "ok_big"
       THEN [mf |-> {BigFile}, status |-> "completed", leave |-> TRUE,
             fetched |-> TRUE, exhausted |-> FALSE, small |-> FALSE]
       \* lines 540-543: the file is unlinked
       ELSE IF out = "ok_small"
       THEN [mf |-> {}, status |-> "corrupted", leave |-> FALSE,
             fetched |-> TRUE, exhausted |-> FALSE, small |-> TRUE]
       ELSE IF out = "ok_nofile"
       THEN [mf |-> {}, status |-> "missing_file", leave |-> FALSE,
             fetched |-> TRUE, exhausted |-> FALSE, small |-> FALSE]
       ELSE IF out = "blocked"
       THEN IF TryAlternativeDownloadMethods(alts) = "completed"
            THEN [mf |-> AlternativeFiles(alts), status |-> "completed",
                  leave |-> TRUE,
                  fetched |-> TRUE, exhausted |-> FALSE, small |-> FALSE]
            \* the raise of line 571 is inside the try of line 471: the
            \* handler of line 582 catches it
            ELSE [mf |-> AlternativeFiles(alts), status |-> "error",
                  leave |-> FALSE,
                  fetched |-> TRUE, exhausted |-> TRUE,
                  small |-> SmallFile \in AlternativeFiles(alts)]
       ELSE IF out = "unavailable"
       THEN [mf |-> {}, status |-> "unavailable", leave |-> TRUE,
             fetched |-> TRUE, exhausted |-> FALSE, small |-> FALSE]
       ELSE IF out = "failed"
       THEN [mf |-> {}, status |-> status, leave |-> FALSE,
             fetched |-> TRUE, exhausted |-> FALSE, small |-> FALSE]
       ELSE IF out = "timeout"
       THEN [mf |-> {}, status |-> "timeout", leave |-> FALSE,
             fetched |-> TRUE, exhausted |-> FALSE, small |-> FALSE]
       ELSE [mf |-> {PartFile}, status |-> "timeout", leave |-> FALSE,
             fetched |-> TRUE, exhausted |-> FALSE, small |-> FALSE]

\* one attempt of download_media; with the last one the call returns and
\* lines 1497-1525 store the result
MediaAttempt(out, alts) ==
    /\ acq.pc = "media"
    /\ LET v == Cur
           p == MediaPass(media_files[v], acq.download_status, out, alts)
           done == p.leave \/ acq.attempt + 1 = max_retries
           a1 == [acq EXCEPT
                    !.probe = "none",
                    !.timed_out = p.fetched /\ out \in {"timeout", "timeout_part"},
                    \* lines 586-587
                    !.pause = IF ~p.leave /\ acq.attempt < max_retries - 1
                              THEN 2 ^ acq.attempt ELSE 0,
                    \* line 552: the fetch failed with a blocking signal
                    !.ladders = IF p.fetched /\ out = "blocked"
                                THEN @ + 1 ELSE @,
                    !.refetch = @ \/ (p.fetched /\ acq.blocked = v),
                    \* history: the fetch of this attempt reported success
                    \* with a file of up to 1 MB
                    !.undersized = p.small,
                    !.blocked = IF p.exhausted /\ @ = NoItem THEN v ELSE @]
       IN /\ media_files' = [media_files EXCEPT ![v] = p.mf]
          /\ IF ~done
             THEN /\ acq' = [a1 EXCEPT !.attempt = @ + 1,
                                       !.download_status = p.status]
                  /\ UNCHANGED db
             ELSE /\ db' = [db EXCEPT ![v] =
                              MarkMediaStep(db[v], p.status = "completed")]
                  /\ acq' = [a1 EXCEPT
                               !.pc = "final", !.attempt = 0,
                               !.download_status = p.status,
                               !.success = @ /\ p.status = "completed"]
    /\ UNCHANGED <<progress, sub_files, ev, disc, hdisc, hacq>>

\* the status stored for a video whatever `success` is
FinalStatus_Completed(success) == "completed"

\* lines 1540-1546: the status stored at the end of the body
FinalStatus(success) == IF success THEN "completed" ELSE "partial"

\* the same with the cursor of discover_all_videos moved to the video
Final_Checkpoint ==
    /\ acq.pc = "final"
    /\ LET v == Cur
       IN /\ db' = [db EXCEPT ![v] =
                      UpdateVideoCompletionStatus(db[v],
                          [processing_status |-> FinalStatus(acq.success)])]
          /\ acq' = [RunLocals(acq) EXCEPT
                       !.pc = "item", !.i = @ + 1,
                       !.success_count = IF acq.success THEN @ + 1 ELSE @,
                       !.failed_count = IF acq.success THEN @ ELSE @ + 1,
                       !.last_final = v, !.finals = @ \cup {v}]
    /\ progress' = UpdateProgress(Cur, acq.success_count)
    /\ UNCHANGED <<sub_files, media_files, ev, disc, hdisc, hacq>>

\* lines 1540-1550: the status of the video is stored from `success`
Final ==
    /\ acq.pc = "final"
    /\ LET v == Cur
       IN /\ db' = [db EXCEPT ![v] =
                      UpdateVideoCompletionStatus(db[v],
                          [processing_status |-> FinalStatus(acq.success)])]
          /\ acq' = [RunLocals(acq) EXCEPT
                       !.pc = "item", !.i = @ + 1,
                       !.success_count = IF acq.success THEN @ + 1 ELSE @,
                       !.failed_count = IF acq.success THEN @ ELSE @ + 1,
                       !.last_final = v, !.finals = @ \cup {v}]
    /\ UNCHANGED <<progress, sub_files, media_files, ev, disc, hdisc, hacq>>

\* lines 1571-1572: the loop is over
FinishAcquire ==
    /\ acq.pc = "item"
    /\ acq.i > Len(acq.videos_to_process)
    /\ hacq' = [hacq EXCEPT
                  !.runs = @ + 1,
                  !.last_req = acq.req,
                  !.stale = {},
                  \* the videos whose files were removed after they were
                  \* completed and that this run has not looked at
                  !.missed = acq.tracked \ acq.visited]
    /\ acq' = NoAcq
    /\ UNCHANGED <<db, progress, sub_files, media_files, ev, disc, hdisc>>

\* between two runs the files of a completed video that the last run was
\* asked for are removed from disk: the captions of one language, or the
\* media files
RemoveFiles(v, what) ==
    /\ acq.pc = "idle"
    /\ hacq.runs > 0
    /\ db[v].exists
    /\ db[v].processing_status = "completed"
    /\ IF what = "media"
       THEN /\ hacq.last_req.download_media
            /\ media_files[v] # {}
            /\ media_files' = [media_files EXCEPT ![v] = {}]
            /\ UNCHANGED sub_files
       ELSE /\ what \in LangsOf(hacq.last_req)
            /\ FilesExist(sub_files[v], what)
            /\ sub_files' = [sub_files EXCEPT ![v][what] =
                               [k \in Kinds |-> "absent"]]
            /\ UNCHANGED media_files
    /\ hacq' = [hacq EXCEPT !.stale = @ \cup {v}]
    /\ UNCHANGED <<db, progress, ev, disc, hdisc, acq>>

\* the answers of the alternative methods in these runs: all three yield a
\* file over 1 MB, all three a smaller one, or all three fail (every other
\* combination is in SpecLadder)
AcqAlts == {[m \in Methods |-> o] : o \in AltOutcomes}

NextAcq ==
    \/ \E req \in AcqRequests : StartAcquire(req)
    \/ BeginItem
    \/ \E mo \in SubOutcomes, ao \in SubOutcomes : SubsAttempt(mo, ao)
    \/ \E out \in ProbeOutcomes : Probe(out)
    \/ \E out \in MediaOutcomes \ {"blocked"} : MediaAttempt(out, NoAlts)
    \/ \E alts \in AcqAlts : MediaAttempt("blocked", alts)
    \/ Final
    \/ FinishAcquire
    \/ \E v \in AcqItems, what \in Langs \cup {"media"} : RemoveFiles(v, what)

SpecAcq == InitAcq /\ [][NextAcq]_vars

---------------------------------------------------------------------------
(* SpecPipe: runs of discover_all_videos and of download_all_missing, one *)
(* after the other in any order, from an empty ledger; between two runs   *)
(* files can disappear from disk.                                         *)

\* the enumerations of the source: video 1 alone, then video 2 listed
\* after it or before it
PipeEnumerations == {<<1>>, <<1, 2>>, <<2, 1>>}

\* the request of every acquisition run
PipeRequest == Request(TRUE, <<"fa">>, TRUE)

\* what the remote service answers in these runs: a caption command
\* yields a file or none; the media command yields a file over 1 MB,
\* times out leaving a .part file, finds the video unavailable, or is
\* blocked, and then the first alternative method works or none does
PipeSubOutcomes == {"ok", "none"}
PipeMediaOutcomes == {"ok_big", "timeout_part", "unavailable"}
PipeAlts == {NoAlts, [m \in Methods |-> "ok"]}

\* a run without title or duration filter
NoFilters ==
    [title_pattern |-> FALSE, min |-> NoBound, max |-> NoBound, strict |-> FALSE]

InitPipe ==
    /\ db = [v \in Items |-> NoRec]
    /\ progress = [exists |-> FALSE]
    /\ sub_files = [v \in Items |-> NoSubFiles]
    /\ media_files = [v \in Items |-> {}]
    /\ ev = NoEv
    /\ disc = NoDisc /\ hdisc = NoHDisc
    /\ acq = NoAcq
    /\ hacq = [runs |-> 0, last_req |-> Request(FALSE, <<>>, FALSE),
               na |-> {}, rerequested |-> FALSE,
               stale |-> {}, missed |-> {}]

\* between two runs the captions of one language, or the media files, of
\* a video in the ledger are removed from disk
LoseFiles(v, what) ==
    /\ acq.pc = "idle" /\ disc.pc = "idle"
    /\ db[v].exists
    /\ IF what = "media"
       THEN /\ media_files[v] # {}
            /\ media_files' = [media_files EXCEPT ![v] = {}]
            /\ UNCHANGED sub_files
       ELSE /\ FilesExist(sub_files[v], what)
            /\ sub_files' = [sub_files EXCEPT ![v][what] =
                               [k \in Kinds |-> "absent"]]
            /\ UNCHANGED media_files
    /\ UNCHANGED <<db, progress, ev, disc, hdisc, acq, hacq>>

NextPipe ==
    \/ /\ acq.pc = "idle"
       /\ \E enum \in PipeEnumerations : StartDiscovery(enum, NoFilters, TRUE)
    \/ DiscoverVideo(TRUE)
    \/ FinishDiscovery
    \/ /\ disc.pc = "idle"
       /\ StartAcquire(PipeRequest)
    \/ BeginItem
    \/ \E mo \in PipeSubOutcomes, ao \in PipeSubOutcomes : SubsAttempt(mo, ao)
    \/ \E out \in ProbeOutcomes : Probe(out)
    \/ \E out \in PipeMediaOutcomes : MediaAttempt(out, NoAlts)
    \/ \E alts \in PipeAlts : MediaAttempt("blocked", alts)
    \/ Final
    \/ FinishAcquire
    \/ \E v \in AcqItems, what \in Langs \cup {"media"} : LoseFiles(v, what)

SpecPipe == InitPipe /\ [][NextPipe]_vars

---------------------------------------------------------------------------
(* SpecParse: _parse_duration_to_minutes applied to any short text.       *)

MaxTextLen == 5

\* the characters of a length text: digits, the colon, white space and a
\* character that belongs to no number
Digits == {"0", "1", "2"}
TextChars == Digits \cup {":", " ", "x"}

Texts == UNION {[1..n -> TextChars] : n \in 0..MaxTextLen}

\* str.strip
RECURSIVE Strip(_)
Strip(q) ==
    IF q = <<>> THEN q
    ELSE IF Head(q) = " " THEN Strip(Tail(q))
    ELSE IF q[Len(q)] = " " THEN Strip(SubSeq(q, 1, Len(q) - 1))
    ELSE q

\* str.split(':')
RECURSIVE SplitColons(_, _)
SplitColons(q, part) ==
    IF q = <<>> THEN <<part>>
    ELSE IF Head(q) = ":" THEN <<part>> \o SplitColons(Tail(q), <<>>)
    ELSE SplitColons(Tail(q), Append(part, Head(q)))

DigitValue(c) == IF c = "0" THEN 0 ELSE IF c = "1" THEN 1 ELSE 2

\* int(): white space around the digits is dropped; anything but a
\* non-empty run of digits raises ValueError (ok = FALSE)
RECURSIVE DecimalValue(_)
DecimalValue(q) ==
    IF q = <<>> THEN 0
    ELSE 10 * DecimalValue(SubSeq(q, 1, Len(q) - 1)) + DigitValue(q[Len(q)])

ParseInt(q) ==
    LET d == Strip(q)
    IN IF d # <<>> /\ \A i \in 1..Len(d) : d[i] \in Digits
       THEN [ok |-> TRUE, value |-> DecimalValue(d)]
       ELSE [ok |-> FALSE, value |-> 0]

\* _parse_duration_to_minutes taking every bare number as seconds
ParseDurationToMinutes_Seconds(length_text) ==
    IF length_text = <<>> THEN NoDuration
    ELSE LET parts == SplitColons(Strip(length_text), <<>>)
         IN IF \E i \in 1..Len(parts) : ~ParseInt(parts[i]).ok THEN NoDuration
            ELSE IF Len(parts) = 3
            THEN ParseInt(parts[1]).value * 60 + ParseInt(parts[2]).value
            ELSE IF Len(parts) = 2 THEN ParseInt(parts[1]).value
            ELSE IF Len(parts) = 1 THEN ParseInt(parts[1]).value \div 60
            ELSE NoDuration

\* _parse_duration_to_minutes (lines 1105-1140); a ValueError of int() in
\* any part is caught at line 1138
ParseDurationToMinutes(length_text) ==
    IF length_text = <<>> THEN NoDuration
    ELSE LET parts == SplitColons(Strip(length_text), <<>>)
         IN IF Len(parts) = 3
            THEN IF \A i \in 1..3 : ParseInt(parts[i]).ok
                 THEN ParseInt(parts[1]).value * 60 + ParseInt(parts[2]).value
                 ELSE NoDuration
            ELSE IF Len(parts) = 2
            THEN IF \A i \in 1..2 : ParseInt(parts[i]).ok
                 THEN ParseInt(parts[1]).value
                 ELSE NoDuration
            ELSE IF Len(parts) = 1
            THEN IF ParseInt(parts[1]).ok
                 THEN LET value == ParseInt(parts[1]).value
                      IN IF value > 100 THEN value \div 60 ELSE value
                 ELSE NoDuration
            ELSE NoDuration

InitParse ==
    /\ db = [v \in Items |-> NoRec]
    /\ progress = [exists |-> FALSE]
    /\ sub_files = [v \in Items |-> NoSubFiles]
    /\ media_files = [v \in Items |-> {}]
    /\ \E t \in Texts : ev = [calls |-> 0, length_text |-> t]
    /\ disc = NoDisc /\ hdisc = NoHDisc
    /\ acq = NoAcq /\ hacq = NoHAcq

\* one call of _parse_duration_to_minutes on the text
ParseDuration ==
    /\ ev.calls = 0
    /\ ev' = [calls |-> 1, length_text |-> ev.length_text,
              minutes |-> ParseDurationToMinutes(ev.length_text)]
    /\ UNCHANGED <<db, progress, sub_files, media_files, disc, hdisc, acq, hacq>>

NextParse == ParseDuration

SpecParse == InitParse /\ [][NextParse]_vars

---------------------------------------------------------------------------
(* SpecFetch: runs of download_all_missing over the same two videos, asked *)
(* for the captions of one language with or without the media; a caption  *)
(* fetch can be blocked, and the media fetch answers as in SpecPipe.       *)

\* the requests of the runs
FetchRequests ==
    {Request(TRUE, <<"fa">>, TRUE), Request(TRUE, <<"fa">>, FALSE)}

NextFetch ==
    \/ \E req \in FetchRequests : StartAcquire(req)
    \/ BeginItem
    \/ \E mo \in CaptionOutcomes, ao \in CaptionOutcomes : SubsAttempt(mo, ao)
    \/ \E out \in ProbeOutcomes : Probe(out)
    \/ \E out \in PipeMediaOutcomes : MediaAttempt(out, NoAlts)
    \/ \E alts \in PipeAlts : MediaAttempt("blocked", alts)
    \/ Final
    \/ FinishAcquire

SpecFetch == InitAcq /\ [][NextFetch]_vars

---------------------------------------------------------------------------
(* SpecLadder: _try_alternative_download_methods called once, for video 1, *)
(* with every combination of answers to its three methods.                 *)

\* what one alternative method does, with the way it fails told apart:
\* fail = a return code other than 0; timeout = TimeoutExpired (or another
\* exception of subprocess.run) with no file left; timeout_part =
\* TimeoutExpired after the command has written over 1 MB to a .part file
LadderOutcomes == AltOutcomes \cup {"timeout", "timeout_part"}

\* 'sleep_after' of the three entries of `methods` (lines 394, 405, 418)
sleep_after == <<30, 60, 0>>

\* what the call does, in order: the methods it runs and the sleeps it
\* takes (lines 421-451)
RECURSIVE LadderSteps(_, _)
LadderSteps(alts, i) ==
    IF i > Len(sleep_after) THEN <<>>
    ELSE <<[kind |-> "method", n |-> i]>> \o
         IF i = FirstOk(alts) THEN <<>>
         ELSE (IF /\ alts[i] \notin {"timeout", "timeout_part"}
                  /\ i < Len(sleep_after)
                  /\ sleep_after[i] > 0
               THEN <<[kind |-> "sleep", n |-> sleep_after[i]]>>
               ELSE <<>>) \o LadderSteps(alts, i + 1)

InitLadder ==
    /\ db = [v \in Items |-> IF v = 1 THEN NewRecord(1) ELSE NoRec]
    /\ progress = [exists |-> FALSE]
    /\ sub_files = [v \in Items |-> NoSubFiles]
    /\ media_files = [v \in Items |-> {}]
    /\ \E alts \in [Methods -> LadderOutcomes] : ev = [calls |-> 0, alts |-> alts]
    /\ disc = NoDisc /\ hdisc = NoHDisc
    /\ acq = NoAcq /\ hacq = NoHAcq

\* one call of _try_alternative_download_methods
TryLadder ==
    /\ ev.calls = 0
    /\ ev' = [calls |-> 1, alts |-> ev.alts,
              status |-> TryAlternativeDownloadMethods(ev.alts),
              file |-> IF FirstOk(ev.alts) # 0
                       THEN {AlternativeFile(ev.alts)} ELSE {},
              steps |-> LadderSteps(ev.alts, 1)]
    /\ media_files' = [media_files EXCEPT ![1] = AlternativeFiles(ev.alts)]
    /\ UNCHANGED <<db, progress, sub_files, disc, hdisc, acq, hacq>>

NextLadder == TryLadder

SpecLadder == InitLadder /\ [][NextLadder]_vars

---------------------------------------------------------------------------
(* SpecUpd: two calls of update_video_completion_status on video 1 whose   *)
(* SELECT and UPDATE statements interleave in any order.                   *)

\* the two callers
Callers == 1..2

\* the arguments of a call: those mark_step_completed passes for a caption
\* language or for the media (lines 940-953), and a processing status alone
\* (lines 1541-1545)
StatusUpdates ==
    {[subtitles_completed |-> OneLang(l, s), last_step |-> "subtitles_" \o l] :
         l \in Langs, s \in {"completed", "failed"}}
    \cup {[media_completed |-> b, last_step |-> "media"] : b \in BOOLEAN}
    \cup {[processing_status |-> s] : s \in {"partial", "completed"}}

\* the rows the calls can find: the row save_video inserts, and a row
\* with one language already stored
UpdRecords ==
    {NewRecord(1),
     [NewRecord(1) EXCEPT !.subtitles_completed["fa"] = "failed",
                          !.processing_status = "partial"]}

\* lines 866-910: the UPDATE of a call that has read current_subtitles
\* with its SELECT
WriteCompletionStatus(rec, upd, current_subtitles) ==
    IF ~rec.exists THEN rec
    ELSE
    [rec EXCEPT
      !.metadata_completed =
          IF Has(upd, "metadata_completed") THEN upd.metadata_completed ELSE @,
      !.subtitles_completed =
          IF Has(upd, "subtitles_completed")
          THEN [l \in Langs |->
                  IF l \in DOMAIN upd.subtitles_completed
                  THEN upd.subtitles_completed[l] ELSE current_subtitles[l]]
          ELSE @,
      !.media_completed =
          IF Has(upd, "media_completed") THEN upd.media_completed ELSE @,
      !.processing_status =
          IF Has(upd, "processing_status") THEN upd.processing_status ELSE @,
      !.last_processing_step =
          IF Has(upd, "last_step") THEN upd.last_step ELSE @]

InitUpd ==
    /\ \E rec \in UpdRecords :
          db = [v \in Items |-> IF v = 1 THEN rec ELSE NoRec]
    /\ progress = [exists |-> FALSE]
    /\ sub_files = [v \in Items |-> NoSubFiles]
    /\ media_files = [v \in Items |-> {}]
    /\ \E u \in [Callers -> StatusUpdates] :
          ev = [calls |-> 0, upd |-> u,
                pc |-> [c \in Callers |-> "select"],
                current_subtitles |->
                    [c \in Callers |-> [l \in Langs |-> "unset"]]]
    /\ disc = NoDisc /\ hdisc = NoHDisc
    /\ acq = NoAcq /\ hacq = NoHAcq

\* lines 858-877: the SELECT of caller c
SelectStatus(c) ==
    /\ ev.pc[c] = "select"
    /\ ev' = [ev EXCEPT !.pc[c] = "update",
                        !.current_subtitles[c] = db[1].subtitles_completed]
    /\ UNCHANGED <<db, progress, sub_files, media_files, disc, hdisc, acq, hacq>>

\* lines 879-914: the UPDATE of caller c and its commit
UpdateStatus(c) ==
    /\ ev.pc[c] = "update"
    /\ db' = [db EXCEPT ![1] = WriteCompletionStatus(db[1], ev.upd[c],
                                                     ev.current_subtitles[c])]
    /\ ev' = [ev EXCEPT !.pc[c] = "done", !.calls = @ + 1,
                        !.current_subtitles[c] = [l \in Langs |-> "unset"]]
    /\ UNCHANGED <<progress, sub_files, media_files, disc, hdisc, acq, hacq>>

NextUpd ==
    \/ \E c \in Callers : SelectStatus(c)
    \/ \E c \in Callers : UpdateStatus(c)

SpecUpd == InitUpd /\ [][NextUpd]_vars

---------------------------------------------------------------------------
(* SpecBatch: BatchYouTubeScraper.process_all over a sources file, with    *)
(* every way a run of youtube_scraper.py can end.                          *)

MaxLines == 3

\* the lines a sources file is made of: an empty line, a comment, a
\* channel with and without @, a playlist
Lines == {"", "# note", "@chan", "chan", "playlist_PL1"}

\* the sources files: one that does not exist, and any file of up to
\* MaxLines lines
SourcesFiles ==
    {[exists |-> FALSE, lines |-> <<>>]} \cup
    {[exists |-> TRUE, lines |-> l] :
         l \in UNION {[1..n -> Lines] : n \in 0..MaxLines}}

\* read_sources (lines 53-96): empty lines and comments are skipped, a
\* leading @ is removed, and the sources are kept in the order of the lines
RECURSIVE ReadLines(_, _)
ReadLines(lines, line_num) ==
    IF line_num > Len(lines) THEN <<>>
    ELSE LET raw == lines[line_num]
             line == IF raw = "@chan" THEN "chan" ELSE raw
         IN (IF raw \in {"", "# note"} THEN <<>>
             ELSE <<[type |-> IF line = "playlist_PL1" THEN "playlist"
                              ELSE "channel",
                     identifier |-> IF line = "playlist_PL1" THEN "PL1"
                                    ELSE line,
                     original |-> line,
                     line_num |-> line_num]>>)
            \o ReadLines(lines, line_num + 1)

ReadSources(file) == IF file.exists THEN ReadLines(file.lines, 1) ELSE <<>>

\* how a run of youtube_scraper.py ends: exit code 0, another exit code,
\* subprocess.run raises an Exception, the user interrupts
ScraperOutcomes == {"zero", "nonzero", "error", "interrupt"}

\* run_scraper answers True whatever the run did
RunScraper_AlwaysTrue(out) == TRUE

\* run_scraper (lines 98-145) when it returns: True for exit code 0, False
\* for another exit code and for an Exception
RunScraper(out) == out = "zero"

InitBatch ==
    /\ db = [v \in Items |-> NoRec]
    /\ progress = [exists |-> FALSE]
    /\ sub_files = [v \in Items |-> NoSubFiles]
    /\ media_files = [v \in Items |-> {}]
    /\ \E f \in SourcesFiles :
          ev = [calls |-> 0, pc |-> "start", sources_file |-> f,
                sources |-> <<>>, i |-> 0,
                processed_sources |-> 0, successful_sources |-> 0,
                failed_sources |-> <<>>,
                \* history: the runs and sleeps in the order they were
                \* made, whether the call has returned past the summary,
                \* and where the user has interrupted it
                steps |-> <<>>, summary |-> FALSE, interrupted |-> "no"]
    /\ disc = NoDisc /\ hdisc = NoHDisc
    /\ acq = NoAcq /\ hacq = NoHAcq

\* lines 147-161: the sources are read; without sources the call returns
StartProcessAll ==
    /\ ev.pc = "start"
    /\ LET sources == ReadSources(ev.sources_file)
       IN ev' = [ev EXCEPT !.calls = 1,
                           !.sources = sources,
                           !.i = IF sources = <<>> THEN 0 ELSE 1,
                           !.pc = IF sources = <<>> THEN "done" ELSE "run"]
    /\ UNCHANGED <<db, progress, sub_files, media_files, disc, hdisc, acq, hacq>>

\* lines 164-172: the body of the loop up to the cooldown, for source i
ProcessSource(out) ==
    /\ ev.pc = "run"
    /\ LET source == ev.sources[ev.i]
           ran == [ev EXCEPT !.processed_sources = @ + 1,
                             !.steps = Append(@, [kind |-> "run", n |-> ev.i,
                                                  out |-> out])]
       IN IF out = "interrupt"
          \* run_scraper raises again (lines 137-139), line 181 catches
          THEN ev' = [ran EXCEPT !.pc = "done", !.summary = TRUE,
                                 !.interrupted = "run"]
          ELSE LET rec == IF RunScraper(out)
                          THEN [ran EXCEPT !.successful_sources = @ + 1]
                          ELSE [ran EXCEPT !.failed_sources =
                                               Append(@, source.original)]
               IN IF ev.i < Len(ev.sources)
                  THEN ev' = [rec EXCEPT !.pc = "sleep"]
                  ELSE ev' = [rec EXCEPT !.pc = "done", !.summary = TRUE]
    /\ UNCHANGED <<db, progress, sub_files, media_files, disc, hdisc, acq, hacq>>

\* lines 175-178: the pause before the next source, which the user may
\* interrupt
Cooldown(out) ==
    /\ ev.pc = "sleep"
    /\ LET slept == [ev EXCEPT !.steps = Append(@, [kind |-> "sleep", n |-> 30,
                                                    out |-> out])]
       IN IF out = "interrupt"
          THEN ev' = [slept EXCEPT !.pc = "done", !.summary = TRUE,
                                   !.interrupted = "sleep"]
          ELSE ev' = [slept EXCEPT !.pc = "run", !.i = @ + 1]
    /\ UNCHANGED <<db, progress, sub_files, media_files, disc, hdisc, acq, hacq>>

NextBatch ==
    \/ StartProcessAll
    \/ \E out \in ScraperOutcomes : ProcessSource(out)
    \/ \E out \in {"slept", "interrupt"} : Cooldown(out)

SpecBatch == InitBatch /\ [][NextBatch]_vars

---------------------------------------------------------------------------
(* Properties of the evaluator (SpecEval) *)

SeqElems(q) == {q[i] : i \in 1..Len(q)}

\* C4: a requested language whose stored status is not_available is never
\* listed in missing_subtitle_languages, whatever files are on disk.
C4_NotAvailableNeverMissing ==
    ev.calls > 0 =>
        \A l \in ev.terminal_langs :
            l \notin SeqElems(ev.res.missing_subtitle_languages)

\* the evaluator was called for a language stored as not_available that has
\* no caption file, while another requested language was found missing
C4_Witness ==
    /\ ev.calls > 0
    /\ \E l \in ev.terminal_langs : ~FilesExist(sub_files[EvalItem], l)
    /\ ev.res.needs_subtitles

\* C5: a requested language stored as completed without a non-empty caption
\* file is reported missing and stored as missing, media_completed without a
\* substantial file is reported needed and stored false, and in both cases
\* the stored processing status becomes partial.
C5_StaleFlagDowngraded ==
    ev.calls > 0 =>
        /\ \A l \in ev.stale_langs :
              /\ l \in SeqElems(ev.res.missing_subtitle_languages)
              /\ ev.res.needs_subtitles
              /\ db[EvalItem].subtitles_completed[l] = "missing"
              /\ db[EvalItem].processing_status = "partial"
        /\ ev.stale_media =>
              /\ ev.res.needs_media
              /\ db[EvalItem].media_completed = FALSE
              /\ db[EvalItem].processing_status = "partial"

\* a call that found both a stale language flag and a stale media flag
C5_Witness ==
    /\ ev.calls > 0
    /\ ev.stale_langs # {}
    /\ ev.stale_media

\* C15: for an item in the ledger, is_fully_completed is true exactly when
\* the metadata is complete, every language asked for has a non-empty
\* manual or auto file on disk or is stored as not_available, and media
\* is not asked for or a file over 1 MB without a temporary suffix is on
\* disk.
C15_FullyCompletedIff ==
    (ev.calls > 0 /\ ev.res.exists) =>
        (ev.res.is_fully_completed <=>
            /\ db[EvalItem].metadata_completed
            /\ \A l \in LangsOf(ev.req) :
                  \/ sub_files[EvalItem][l]["manual"] = "full"
                  \/ sub_files[EvalItem][l]["auto"] = "full"
                  \/ l \in ev.terminal_langs
            /\ \/ ~ev.req.download_media
               \/ \E f \in media_files[EvalItem] : f.big /\ ~f.temp)

\* a record is found fully completed with media asked for, one language
\* stored as not_available and a large file with a temporary suffix
\* next to the media file
C15_Witness ==
    /\ ev.calls > 0 /\ ev.res.exists
    /\ ev.res.is_fully_completed
    /\ ev.req.download_media
    /\ ev.terminal_langs # {}
    /\ [temp |-> TRUE, big |-> TRUE] \in media_files[EvalItem]

\* C22: the evaluator reports needs_metadata exactly for an item that has
\* no record in the ledger.
C22_MetadataCompleteIfRecorded ==
    (ev.calls > 0) => (ev.res.needs_metadata <=> ~db[EvalItem].exists)

\* C16: a call of the evaluator that follows a call with the same request
\* returns the same result in every field and changes nothing in the
\* ledger (the files do not change between the calls).
C16_EvaluatorIdempotent ==
    (ev.calls = MaxCalls /\ ev.repeat) =>
        /\ ev.same_result
        /\ ~ev.changed

---------------------------------------------------------------------------
(* Properties of Discovery (SpecDisc) *)

LedgerIds == {v \in Items : db[v].exists}

FirstIndex(q, x) == CHOOSE i \in 1..Len(q) : q[i] = x /\ \A j \in 1..(i - 1) : q[j] # x

MaxOf(S) == CHOOSE x \in S : \A y \in S : y <= x

\* the last run returned and no error occurred in it: get_progress and
\* every save_video succeeded and the enumeration did not raise
CleanReturn ==
    /\ hdisc.runs > 0
    /\ hdisc.ended = "returned"
    /\ hdisc.clean

\* the items a run resuming at watermark w is to save: those enumerated
\* after the first occurrence of w, not in the ledger, passing the filters
ExpectedAfter(enum, w, ids_before, f) ==
    {v \in {enum[j] : j \in (FirstIndex(enum, w) + 1)..Len(enum)} :
        v \notin ids_before /\ ShouldProcessVideo(v, f)}

C8_IdempotentResume ==
    (CleanReturn /\ hdisc.repeat) =>
        /\ hdisc.saved_at = {}
        /\ hdisc.net_discovered = 0
        /\ LedgerIds = hdisc.ids_before
        /\ progress = hdisc.progress_before

\* C9: every run of discover_all_videos ends; a run that returns without
\* error and whose stored watermark does not occur in the enumeration has
\* saved nothing, returns 0 and leaves the ledger and the cursor unchanged.
C9_DiscoveryTerminates ==
    /\ (disc.pc = "loop") ~> (disc.pc = "idle")
    /\ [](( /\ CleanReturn
            /\ hdisc.last_video_id # NoItem
            /\ hdisc.last_video_id \notin SeqElems(hdisc.enum)) =>
               /\ hdisc.saved_at = {}
               /\ hdisc.batch_videos = <<>>
               /\ hdisc.net_discovered = 0
               /\ LedgerIds = hdisc.ids_before
               /\ progress = hdisc.progress_before)

\* a run over an enumeration of the greatest length that returned without
\* having met the stored watermark, with an item not in the ledger in it
C9_Witness ==
    /\ CleanReturn
    /\ hdisc.last_video_id # NoItem
    /\ hdisc.last_video_id \notin SeqElems(hdisc.enum)
    /\ Len(hdisc.enum) = MaxEnumLen
    /\ \E v \in SeqElems(hdisc.enum) :
           ~db[v].exists /\ ShouldProcessVideo(v, hdisc.filters)

\* C11: when the enumeration raises after the run has saved at least one
\* video, discover_all_videos returns with the cursor at the last video the
\* run saved and the count it read at its start plus the number of videos
\* it saved, and every video it saved is in the ledger.
C11_ErrorCheckpoint ==
    (/\ hdisc.runs > 0
     /\ hdisc.ended = "error"
     /\ hdisc.batch_videos # <<>>) =>
        /\ progress = UpdateProgress(Last(hdisc.batch_videos),
                                     hdisc.saved_count)
        /\ hdisc.net_discovered = Len(hdisc.batch_videos)
        /\ \A v \in SeqElems(hdisc.batch_videos) : db[v].exists

\* a run that saved two videos and then met the error, with a cursor that
\* had been stored by an earlier run
C11_Witness ==
    /\ hdisc.runs > 0
    /\ hdisc.ended = "error"
    /\ Len(hdisc.batch_videos) >= 2
    /\ hdisc.progress_before.exists

\* C12: when the user interrupts a run that has saved at least one video
\* (and in which no read or write of the ledger failed), the cursor is at
\* the last video the run saved, with the count the run has reached, when
\* the process exits.
C12_InterruptCheckpoint ==
    (/\ hdisc.runs > 0
     /\ hdisc.ended = "interrupted"
     /\ hdisc.clean
     /\ hdisc.batch_videos # <<>>) =>
        progress = UpdateProgress(Last(hdisc.batch_videos), hdisc.saved_count)

\* C13: a run in which a write of save_video or the read of get_progress
\* failed does not return to its caller as a run that went well: a run
\* that returns had no such failure.
C13_StorageFailureSurfaces ==
    (hdisc.runs > 0 /\ hdisc.ended = "returned") => hdisc.clean

\* C10: after a run that ends without error and whose stored watermark, if
\* there is one, occurs in the enumeration, every enumerated item that
\* passes the filters is in the ledger.
C10_NoGap ==
    (/\ CleanReturn
     /\ \/ hdisc.last_video_id = NoItem
        \/ hdisc.last_video_id \in SeqElems(hdisc.enum)) =>
        \A v \in SeqElems(hdisc.enum) :
            ShouldProcessVideo(v, hdisc.filters) => db[v].exists

\* C34: a record that appears in the ledger during a run of
\* discover_all_videos has the status 'metadata_only', metadata_completed
\* true, media_completed false and no language status, and its video
\* passes the filters of the run.
C34_InsertedRecord ==
    [][\A v \in Items :
          (~db[v].exists /\ db'[v].exists) =>
             /\ db'[v].processing_status = "metadata_only"
             /\ db'[v].metadata_completed
             /\ ~db'[v].media_completed
             /\ \A l \in Langs : db'[v].subtitles_completed[l] = "unset"
             /\ disc.pc = "loop"
             /\ ShouldProcessVideo(v, disc.filters)]_vars

\* a run with a filter has saved one video and left out another that the
\* filter rejects
C34_Witness ==
    /\ disc.pc = "loop"
    /\ disc.saved_at # {}
    /\ \E k \in 1..disc.pos :
          /\ ~ShouldProcessVideo(disc.enum[k], disc.filters)
          /\ ~db[disc.enum[k]].exists

\* C36: whenever the cursor names a last processed video, the ledger
\* holds a record of that video.
C36_CursorNamesRecord ==
    (progress.exists /\ progress.last_video_id # NoItem) =>
        db[progress.last_video_id].exists

---------------------------------------------------------------------------
(* Properties of download_all_missing (SpecAcq) *)

\* C1: once the first fetch of a video has met a blocking signal and all
\* three alternative methods have failed, the run makes no further fetch
\* for that video and does not go on to any video queued after it.
C1_CircuitBreaker ==
    (acq.pc # "idle" /\ acq.blocked # NoItem) =>
        ~acq.refetch /\ ~acq.later

\* C2: right after download_all_missing has stored the final status of a
\* video, the status is 'completed' if get_video_completion_status, asked
\* again with the same request, reports the video fully complete, and
\* 'partial' in every other case.
C2_StatusIsRecomputed ==
    (acq.pc = "item" /\ acq.last_final # NoItem) =>
        LET v == acq.last_final
            res == GetVideoCompletionStatus(db[v], sub_files[v],
                                            media_files[v], acq.req)
        IN db[v].processing_status =
               IF res.is_fully_completed THEN "completed" ELSE "partial"

\* C3: a language for which download_subtitles returned not_available is
\* stored as not_available for that video, and no later step asks for that
\* language of that video again.
C3_NotAvailableStored ==
    /\ \A p \in hacq.na :
          db[p[1]].subtitles_completed[p[2]] = "not_available"
    /\ ~hacq.rerequested

\* C6: when the files of a completed video were removed after a run, the
\* next run with the same request has looked at that video (and so has
\* moved it back to 'partial' and fetched what is missing) by its end.
C6_DriftRequeued ==
    hacq.missed = {}


\* C14: when download_media has returned from a last attempt whose fetch
\* reported success with a media file of up to 1 MB, that file is no
\* longer on disk, the status returned is not 'completed', and
\* media_completed is false.
C14_UndersizedRejected ==
    (acq.pc = "final" /\ acq.undersized) =>
        /\ SmallFile \notin media_files[Cur]
        /\ acq.download_status # "completed"
        /\ ~db[Cur].media_completed

C18_FailedItemStaysQueued ==
    /\ (acq.pc = "item" /\ acq.last_final # NoItem) =>
          LET v == acq.last_final
          IN (\/ \E l \in LangsOf(acq.req) :
                    db[v].subtitles_completed[l] = "failed"
              \/ acq.req.download_media /\ ~db[v].media_completed)
                 => db[v].processing_status # "completed"
    /\ (acq.pc = "item" /\ acq.i > Len(acq.videos_to_process)) =>
          acq.visited = SeqElems(acq.videos_to_process)

\* the caption kind that goes with a manual path and an auto path
KindOf(manual_path, auto_path) ==
    IF manual_path # "None" /\ auto_path # "None" THEN "both"
    ELSE IF manual_path # "None" THEN "manual"
    ELSE IF auto_path # "None" THEN "auto"
    ELSE "none"

\* C38: the caption kind download_subtitles returns is 'both' exactly when
\* it returns a manual path and an auto path, 'manual' exactly when it
\* returns only a manual path, 'auto' exactly when it returns only an auto
\* path and 'none' exactly when it returns neither (the three values are
\* those lines 1463-1469 store for the video after the call).
C38_KindMatchesPaths ==
    \A v \in Items :
        (db[v].exists /\ db[v].subtitle_type # "None") =>
            db[v].subtitle_type =
                KindOf(db[v].subtitle_path, db[v].auto_subtitle_path)

\* C39: at every point of download_all_missing success_count is the number
\* of queued videos this run has set to 'completed' and failed_count the
\* number it has set to 'partial' or 'failed'; no queued video is counted
\* twice, and the counts are those the run holds when its loop is left.
C39_CountsMatchStatuses ==
    (acq.pc # "idle") =>
        LET queued == SeqElems(acq.videos_to_process)
            Stored(S) == {v \in acq.finals : db[v].processing_status \in S}
        IN /\ Cardinality(queued) = Len(acq.videos_to_process)
           /\ acq.finals \subseteq queued
           /\ acq.success_count = Cardinality(Stored({"completed"}))
           /\ acq.failed_count = Cardinality(Stored({"partial", "failed"}))
           /\ acq.success_count + acq.failed_count = Cardinality(acq.finals)
           /\ \A v \in queued \ acq.finals :
                 db[v].processing_status # "completed"

\* a run has come to the end of its queue with a video it has set to
\* 'completed' and a video it has set to 'partial'
C39_Witness ==
    /\ acq.pc = "item"
    /\ acq.i > Len(acq.videos_to_process)
    /\ acq.success_count >= 1
    /\ acq.failed_count >= 1

---------------------------------------------------------------------------
(* Properties of the runs taken together (SpecPipe) *)

\* C19: in no step does media_completed of a video go from true to false,
\* the status of a language go from 'completed' or 'not_available' to
\* another value, or the processing status go from 'completed' to another
\* value, except in the step in which get_video_completion_status is
\* asked about that video and finds no file for the flag it lowers: no
\* media file over 1 MB without a temporary suffix, no non-empty caption
\* file of the language (which then becomes 'missing'), or one of the two
\* for the processing status.
C19_NoBackwardMove ==
    [][\A v \in Items :
         (db[v].exists /\ db'[v].exists) =>
           LET old == db[v]
               new == db'[v]
               evaluated == /\ acq.pc = "item"
                            /\ acq.i <= Len(acq.videos_to_process)
                            /\ acq.videos_to_process[acq.i] = v
               no_media == /\ acq.req.download_media
                           /\ ~\E f \in media_files[v] : f.big /\ ~f.temp
               no_caption(l) == /\ l \in LangsOf(acq.req)
                                /\ sub_files[v][l]["manual"] # "full"
                                /\ sub_files[v][l]["auto"] # "full"
           IN /\ (old.media_completed /\ ~new.media_completed)
                    => (evaluated /\ no_media)
              /\ \A l \in Langs :
                    (/\ old.subtitles_completed[l]
                            \in {"completed", "not_available"}
                     /\ new.subtitles_completed[l]
                            # old.subtitles_completed[l])
                    => (/\ evaluated /\ no_caption(l)
                        /\ new.subtitles_completed[l] = "missing")
              /\ (/\ old.processing_status = "completed"
                  /\ new.processing_status # "completed")
                    => (/\ evaluated
                        /\ no_media \/ \E l \in Langs : no_caption(l))
      ]_vars

\* the evaluator has lowered the flag of a caption whose file was lost
\* after a run had fetched it, and the run has gone on with that video
C19_Witness ==
    /\ acq.pc = "subs"
    /\ hacq.runs > 0
    /\ db[Cur].subtitles_completed["fa"] = "missing"
    /\ db[Cur].processing_status = "partial"

\* C20: no step removes a record from the ledger, and a step that adds
\* one is a step of the loop of discover_all_videos; a record is stored
\* under its id, which no step rewrites.
C20_LedgerOnlyGrows ==
    [][/\ LedgerIds \subseteq {v \in Items : db'[v].exists}
       /\ (\E v \in Items : db'[v].exists /\ ~db[v].exists)
             => (disc.pc = "loop" /\ acq.pc = "idle")
      ]_vars

\* both videos are in the ledger, the second found by a later discovery
\* run, and an acquisition run has ended after that
C20_Witness ==
    /\ LedgerIds = AcqItems
    /\ db[2].scraped_at > db[1].scraped_at
    /\ hacq.runs > 0
    /\ acq.pc = "idle" /\ disc.pc = "idle"
    /\ db[1].processing_status # "metadata_only"
    /\ db[2].processing_status # "metadata_only"

\* C32: no step of download_all_missing, from its start to its return,
\* changes the cursor of discover_all_videos.
C32_CursorUntouched ==
    [][(acq.pc # "idle" \/ acq'.pc # "idle") => progress' = progress]_vars

\* a run of download_all_missing that left a video 'partial' has returned,
\* and the cursor that discover_all_videos stored is in place
C32_Witness ==
    /\ acq.pc = "idle"
    /\ hacq.runs > 0
    /\ progress.exists
    /\ \E v \in Items : db[v].exists /\ db[v].processing_status = "partial"

\* C33: the queue of a run of download_all_missing holds, once each, the
\* videos of the ledger whose status is not 'completed' when the run
\* starts, oldest scraped_at first; the queue does not change during the
\* run, the loop moves through it one position at a time, a step changes
\* no record but that of the video the loop is at, and the run returns
\* when it has been through the whole queue.
C33_QueueOldestFirst ==
    [][/\ (acq.pc = "idle" /\ acq'.pc # "idle") =>
             LET q == acq'.videos_to_process
             IN /\ SeqElems(q) = {v \in Items :
                                    /\ db[v].exists
                                    /\ db[v].processing_status # "completed"}
                /\ \A j, k \in 1..Len(q) :
                      j < k => /\ q[j] # q[k]
                               /\ db[q[j]].scraped_at <= db[q[k]].scraped_at
                /\ acq'.i = 1
       /\ (acq.pc # "idle" /\ acq'.pc # "idle") =>
             /\ acq'.videos_to_process = acq.videos_to_process
             /\ acq'.i \in {acq.i, acq.i + 1}
             /\ \A v \in Items :
                   db'[v] # db[v] =>
                      acq.i <= Len(acq.videos_to_process) /\ v = Cur
       /\ (acq.pc # "idle" /\ acq'.pc = "idle") =>
             /\ acq.i = Len(acq.videos_to_process) + 1
             /\ acq.visited = SeqElems(acq.videos_to_process)]_vars

\* a run has been through a queue that leaves out a completed video
C33_Witness ==
    /\ acq.pc = "item"
    /\ Len(acq.videos_to_process) = 1
    /\ acq.i = 2
    /\ \E v \in Items :
          /\ db[v].exists
          /\ db[v].processing_status = "completed"
          /\ v \notin SeqElems(acq.videos_to_process)

\* C35: no step of discover_all_videos, from its start to its return,
\* changes a record that is in the ledger, whether or not the video is
\* enumerated again.
C35_DiscoveryKeepsRecords ==
    [][(disc.pc # "idle" \/ disc'.pc # "idle") =>
          \A v \in Items : db[v].exists => db'[v] = db[v]]_vars

\* a run of discover_all_videos has met, after its watermark, a video
\* that is in the ledger, and the ledger holds a record that
\* download_all_missing has completed
C35_Witness ==
    /\ disc.pc = "loop"
    /\ disc.skipped_count > 0
    /\ \E k \in 1..disc.pos :
          /\ disc.enum[k] \in disc.ids_before
          /\ db[disc.enum[k]].processing_status = "completed"

---------------------------------------------------------------------------
(* Properties of _parse_duration_to_minutes (SpecParse) *)

\* the number a run of digits writes, read from the left
RECURSIVE NumberOf(_, _)
NumberOf(q, n) ==
    IF q = <<>> THEN n
    ELSE NumberOf(Tail(q), 10 * n + (IF Head(q) = "0" THEN 0
                                     ELSE IF Head(q) = "1" THEN 1 ELSE 2))

IsNumber(q) == q # <<>> /\ \A i \in 1..Len(q) : q[i] \in {"0", "1", "2"}

\* C21: a text 'H:M:S' gives 60 * H + M, a text 'M:S' gives M, a bare
\* number n gives n div 60 when n > 100 and n otherwise; the empty text, a
\* text with more than two colons and a text with a part that is empty or
\* holds a character that is neither digit nor white space give no value.
C21_DurationParsed ==
    (ev.calls = 1) =>
        LET t == ev.length_text
            n == Len(t)
            colons == {i \in 1..n : t[i] = ":"}
        IN /\ \A i, j \in colons :
                 (/\ i < j /\ colons = {i, j}
                  /\ IsNumber(SubSeq(t, 1, i - 1))
                  /\ IsNumber(SubSeq(t, i + 1, j - 1))
                  /\ IsNumber(SubSeq(t, j + 1, n)))
                 => ev.minutes = 60 * NumberOf(SubSeq(t, 1, i - 1), 0)
                                    + NumberOf(SubSeq(t, i + 1, j - 1), 0)
           /\ \A i \in colons :
                 (/\ colons = {i}
                  /\ IsNumber(SubSeq(t, 1, i - 1))
                  /\ IsNumber(SubSeq(t, i + 1, n)))
                 => ev.minutes = NumberOf(SubSeq(t, 1, i - 1), 0)
           /\ (colons = {} /\ IsNumber(t))
                 => ev.minutes = IF NumberOf(t, 0) > 100
                                  THEN NumberOf(t, 0) \div 60
                                  ELSE NumberOf(t, 0)
           /\ (\/ t = <<>>
               \/ Cardinality(colons) > 2
               \/ \E i \in 1..n : t[i] = "x"
               \/ \E i \in colons : i = 1 \/ i = n \/ i + 1 \in colons)
                 => ev.minutes = NoDuration

\* the bare number 1200 is taken as seconds and gives 20 minutes
C21_Witness ==
    /\ ev.calls = 1
    /\ ev.length_text = <<"1", "2", "0", "0">>
    /\ ev.minutes = 20


---------------------------------------------------------------------------
(* Properties of the fetches of download_all_missing (SpecFetch, SpecAcq) *)

\* the loop of download_all_missing is inside the body for a video
InVideo == acq.pc \in {"subs", "probe", "media", "final"}

\* C23: a fetch that fails with a blocking signal is never passed over:
\* download_subtitles never returns not_available for a language one of
\* whose fetches was blocked, and once the alternative methods have all
\* failed after a blocked media fetch the run goes on to no further video.
C23_BlockEscalates ==
    /\ InVideo => ~acq.caption_blocked
    /\ (acq.pc # "idle" /\ acq.blocked # NoItem) => ~acq.later

\* C24: an attempt of a caption fetch or of the media fetch that times out
\* does not call the alternative methods, does not set the fatal block
\* condition and does not end the run, and when it is not the last attempt
\* allowed the same fetch is attempted again.
C24_TimeoutIsTransient ==
    [][(acq.pc \in {"subs", "media"} /\ acq'.timed_out) =>
          /\ acq'.pc # "idle"
          /\ acq'.ladders = acq.ladders
          /\ acq'.blocked = acq.blocked
          /\ acq.attempt + 1 < max_retries =>
                /\ acq'.pc = acq.pc
                /\ acq'.li = acq.li
                /\ acq'.attempt = acq.attempt + 1]_vars

\* the media fetch has timed out twice and its third attempt is due
C24_Witness ==
    /\ acq.pc = "media"
    /\ acq.timed_out
    /\ acq.attempt = 2
    /\ acq.ladders = 0

\* C25: within one call no fetch is attempted more than max_retries times
\* (the attempts of download_media, and the rounds of download_subtitles
\* for a language), and download_media calls the alternative methods at
\* most once.
C25_BoundedFetches ==
    InVideo => /\ acq.attempt < max_retries
               /\ acq.ladders <= 1

\* C26: when an attempt of a fetch is followed by another attempt of the
\* same fetch (the next round for the same caption language, the next
\* attempt of download_media), 2^attempt seconds are slept between the
\* two, and nothing is slept after the last attempt allowed.
C26_BackoffBetweenAttempts ==
    [][acq.pc \in {"subs", "media"} =>
          /\ (/\ acq'.pc = acq.pc
              /\ acq'.li = acq.li
              /\ acq'.attempt = acq.attempt + 1) =>
                 acq'.pause = 2 ^ acq.attempt
          /\ acq.attempt + 1 = max_retries => acq'.pause = 0]_vars

---------------------------------------------------------------------------
(* Properties of _try_alternative_download_methods (SpecLadder) *)

\* the methods among the steps of a call, in the order they were run
MethodsRun(steps) ==
    LET IsMethod(e) == e.kind = "method"
        run == SelectSeq(steps, IsMethod)
    IN [k \in 1..Len(run) |-> run[k].n]

\* C27: the call runs the methods 1, 2, 3 in this order up to the first
\* one that yields a file over 1 MB, returns 'completed' exactly when
\* there is such a method and 'auth_failed' only after all three have
\* been run, and between a method that has failed and the method after it
\* sleeps the sleep_after of the failed method.
C27_LadderOrder ==
    (ev.calls > 0) =>
        LET run == MethodsRun(ev.steps)
            last == run[Len(run)]
        IN /\ Len(run) >= 1
           /\ \A k \in 1..Len(run) : run[k] = k
           /\ \A k \in 1..Len(run) - 1 : ev.alts[k] # "ok"
           /\ ev.status = IF ev.alts[last] = "ok" THEN "completed"
                          ELSE "auth_failed"
           /\ ev.status = "auth_failed" => Len(run) = Len(sleep_after)
           /\ \A j \in 1..Len(ev.steps) - 1 :
                 LET e == ev.steps[j]
                 IN (e.kind = "method" /\ sleep_after[e.n] > 0) =>
                        ev.steps[j + 1] =
                            [kind |-> "sleep", n |-> sleep_after[e.n]]

\* C28: when the probe answers that the video is deleted or unavailable,
\* download_all_missing goes to the end of the body without a media
\* attempt, with no media file written, media_completed false and the
\* video not successful, and then stores the status 'partial'; when the
\* probe answers anything else (the video exists, another error, a timeout)
\* the media download is started.
C28_DeletedSkipsMedia ==
    [][/\ acq.pc = "probe" =>
             IF acq'.probe = "deleted"
             THEN /\ acq'.pc = "final"
                  /\ media_files' = media_files
                  /\ ~db'[Cur].media_completed
                  /\ ~acq'.success
             ELSE /\ acq'.pc = "media"
                  /\ acq'.attempt = 0
       /\ (acq.pc = "final" /\ acq.probe = "deleted") =>
             db'[Cur].processing_status = "partial"]_vars

\* the probe has found the video deleted and the status is about to be stored
C28_Witness ==
    /\ acq.pc = "final"
    /\ acq.probe = "deleted"
    /\ db[Cur].processing_status # "partial"

\* C29: when the loop of download_all_missing is at a video that
\* get_video_completion_status reports as fully complete for the request,
\* its next step goes on to the video after it: no caption fetch, no
\* probe, no media fetch, and no file written or removed.
C29_CompleteIsSkipped ==
    [][(/\ acq.pc = "item"
        /\ acq.i <= Len(acq.videos_to_process)
        /\ GetVideoCompletionStatus(db[Cur], sub_files[Cur],
                                    media_files[Cur],
                                    acq.req).is_fully_completed) =>
          /\ acq'.pc = "item"
          /\ acq'.i = acq.i + 1
          /\ sub_files' = sub_files
          /\ media_files' = media_files]_vars

\* the loop has gone past a video without entering its body
C29_Witness ==
    /\ acq.pc = "item"
    /\ acq.i > 1
    /\ acq.last_final = NoItem

\* C30: no step replaces a stored caption path by an empty value while the
\* file it names is still on disk, and no step replaces a stored caption
\* kind by 'none' while a file of a stored path is still on disk.
C30_CaptionPathsKept ==
    [][\A v \in Items :
          (db[v].exists /\ db'[v].exists) =>
             LET manual_kept ==
                     /\ db[v].subtitle_path # "None"
                     /\ sub_files'[v][db[v].subtitle_path]["manual"] = "full"
                 auto_kept ==
                     /\ db[v].auto_subtitle_path # "None"
                     /\ sub_files'[v][db[v].auto_subtitle_path]["auto"] = "full"
             IN /\ manual_kept => db'[v].subtitle_path # "None"
                /\ auto_kept => db'[v].auto_subtitle_path # "None"
                /\ (manual_kept \/ auto_kept) =>
                       db'[v].subtitle_type \notin {"None", "none"}]_vars

\* C37: whenever _try_alternative_download_methods returns 'completed' with
\* a file, the returned file is larger than 1 MB and carries no temporary
\* suffix, and get_video_completion_status called right after finds that
\* the media of the video are not needed any more.
C37_ReturnedFileSatisfies ==
    (ev.calls > 0 /\ ev.status = "completed") =>
        /\ \A f \in ev.file : f.big /\ ~f.temp
        /\ ~GetVideoCompletionStatus(db[1], sub_files[1], media_files[1],
                                     PipeRequest).needs_media

---------------------------------------------------------------------------
(* Properties of update_video_completion_status (SpecUpd) *)

\* the columns (and, for the language statuses, the languages) a call sets
\* among those the claim is about
Sets(upd) ==
    (IF Has(upd, "subtitles_completed")
     THEN {<<"subtitles_completed", l>> : l \in DOMAIN upd.subtitles_completed}
     ELSE {})
    \cup (IF Has(upd, "media_completed") THEN {<<"media_completed", "">>} ELSE {})
    \cup (IF Has(upd, "processing_status") THEN {<<"processing_status", "">>}
          ELSE {})

\* the row holds what the call has set
InEffect(rec, upd) ==
    /\ Has(upd, "subtitles_completed") =>
          \A l \in DOMAIN upd.subtitles_completed :
             rec.subtitles_completed[l] = upd.subtitles_completed[l]
    /\ Has(upd, "media_completed") => rec.media_completed = upd.media_completed
    /\ Has(upd, "processing_status") =>
          rec.processing_status = upd.processing_status

\* C31: when two calls that set different columns, or the status of
\* different languages, have both committed, the row holds what each of
\* them has set, whatever the order of their SELECT and UPDATE statements.
C31_NoLostUpdate ==
    (/\ ev.calls = 2
     /\ Sets(ev.upd[1]) \cap Sets(ev.upd[2]) = {}) =>
        \A c \in Callers : InEffect(db[1], ev.upd[c])
---------------------------------------------------------------------------
(* Properties of BatchYouTubeScraper.process_all (SpecBatch) *)

\* the steps of the kind k, in the order they were made
StepsOf(steps, k) ==
    LET IsKind(e) == e.kind = k
    IN SelectSeq(steps, IsKind)

\* C40: process_all runs the sources one at a time in the order of the
\* file; a source whose run exits non-zero or raises an error is recorded
\* as failed and every later source is still run; a pause is taken between
\* two consecutive sources and none after the last; and after each source
\* processed_sources is successful_sources plus the number of failed
\* sources.
C40_BatchOrder ==
    (ev.calls > 0) =>
        LET runs == StepsOf(ev.steps, "run")
            returned == {k \in 1..Len(runs) : runs[k].out # "interrupt"}
            failed == {k \in returned : runs[k].out \in {"nonzero", "error"}}
            n == Len(ev.sources)
        IN \* one at a time, in file order
           /\ \A k \in 1..Len(runs) : runs[k].n = k
           /\ \A j, k \in 1..n :
                 j < k => ev.sources[j].line_num < ev.sources[k].line_num
           \* a failed source is recorded, in the order of the failures
           /\ Len(ev.failed_sources) = Cardinality(failed)
           /\ \A k \in failed :
                 ev.failed_sources[Cardinality({j \in failed : j <= k})] =
                     ev.sources[k].original
           \* and the sources after it are run
           /\ (ev.pc = "done" /\ ev.interrupted = "no") => Len(runs) = n
           /\ (ev.pc = "run" /\ ev.interrupted = "no") => Len(runs) = ev.i - 1
           \* a pause after every source but the last, and only there
           /\ \A j \in 1..Len(ev.steps) :
                 LET e == ev.steps[j]
                 IN /\ (e.kind = "sleep") =>
                          /\ j > 1
                          /\ ev.steps[j - 1].kind = "run"
                          /\ ev.steps[j - 1].n < n
                    /\ (e.kind = "run" /\ j > 1) =>
                          ev.steps[j - 1].kind = "sleep"
           /\ (ev.pc = "done" /\ ev.steps # <<>>) =>
                 (ev.steps[Len(ev.steps)].kind = "sleep" =>
                      ev.interrupted = "sleep")
           \* the counters after each source
           /\ (ev.interrupted # "run") =>
                 /\ ev.processed_sources = Len(runs)
                 /\ ev.successful_sources = Cardinality(returned \ failed)
                 /\ ev.processed_sources =
                        ev.successful_sources + Len(ev.failed_sources)

\* all the sources of a file of three have been run without an interrupt,
\* the first has failed with an exit code, the second with an error, and
\* the third has succeeded
C40_Witness ==
    /\ ev.calls > 0
    /\ ev.pc = "done"
    /\ ev.interrupted = "no"
    /\ Len(ev.sources) = 3
    /\ LET runs == StepsOf(ev.steps, "run")
       IN /\ Len(runs) = 3
          /\ runs[1].out = "nonzero"
          /\ runs[2].out = "error"
          /\ runs[3].out = "zero"
    /\ Len(StepsOf(ev.steps, "sleep")) = 2

=============================================================================
